---- MODULE Spec2Model ----
(***************************************************************************)
(* Fixed-block memory pools of the memory-pools lab                        *)
(* (07-memory-management/practice/lab2-memory-pools/.../memory_pools.c):   *)
(* init_memory_pool, pool_malloc, pool_free, smart_pool_malloc and         *)
(* smart_pool_free, called by several tasks under a preemptive scheduler.  *)
(*                                                                         *)
(* Memory is modelled by addresses.  A block header lives at the address   *)
(* init_memory_pool computes for it; the pointer handed to a caller is the *)
(* header address plus sizeof(memory_block_t), and pool_free recovers the  *)
(* header by subtracting it again.  A pointer of the general-purpose heap  *)
(* has no header: what pool_free reads in front of it is unspecified       *)
(* memory, so the outcome of its validation is a nondeterministic choice.  *)
(*                                                                         *)
(* Every call is split at the points where an interleaving of another task *)
(* matters: the call, the mutex take with the first read of the shared     *)
(* state inside the critical section, and the update with the give and the *)
(* return (nothing another task can observe lies between those three).     *)
(*                                                                         *)
(* The allocation tracker of the heap-management lab                       *)
(* (07-memory-management/practice/lab1-heap-management/.../                *)
(* heap_management.c) is modelled next to the pools: tracked_malloc and    *)
(* tracked_free over the same raw heap, the monitor task with its summary  *)
(* and leak scan, and the microsecond clock.                               *)
(***************************************************************************)
EXTENDS Integers, Sequences, FiniteSets, TLC

(***************************************************************************)
(* Bounds of the model.                                                    *)
(***************************************************************************)
NumTasks == 2
BlocksPerPool == 2
NumHeap == 1
MaxCalls == 3
NumSlots == 2
MaxHold == 1
NumBuffers == 2
MaxStaticCalls == 4
NumProducers == 2
NumResources == 2
MaxRounds == 3
MaxAccesses == 3

(***************************************************************************)
(* Program constants.                                                      *)
(***************************************************************************)
POOL_COUNT == 4
SMALL_POOL_BLOCK_SIZE == 64
MEDIUM_POOL_BLOCK_SIZE == 256
LARGE_POOL_BLOCK_SIZE == 1024
HUGE_POOL_BLOCK_SIZE == 4096
POOL_MAGIC_FREE == "0xDEADBEEF"
POOL_MAGIC_ALLOC == "0xCAFEBABE"
HEADER_SIZE == 24
ALIGNMENT == 4
SMART_OVERHEAD == 16
SIZE_MAX == 2147483647
\* heap_management.c: the leak age of detect_memory_leaks (ms) and the divisor
\* that turns esp_timer_get_time()'s microseconds into milliseconds.
LEAK_AGE_MS == 30000
US_PER_MS == 1000

NULL == 0
\* Content of memory the program never wrote.
UNKNOWN == "unknown"
UNKNOWN_ID == -1

Tasks == 1..NumTasks
\* memory_monitor_task, the one caller of print_allocation_summary and
\* detect_memory_leaks.
MONITOR == NumTasks + 1
PoolIdx == 0..(POOL_COUNT - 1)

\* size_t arithmetic: unsigned, wraps around (the width is cut to the range of
\* the model checker's integers).
Inc(x) == IF x = SIZE_MAX THEN 0 ELSE x + 1
Dec(x) == IF x = 0 THEN SIZE_MAX ELSE x - 1

\* pool_configs[i]: block size from the table, block count cut to the bound.
pool_configs ==
  [i \in PoolIdx |->
     [block_size  |-> CASE i = 0 -> SMALL_POOL_BLOCK_SIZE
                        [] i = 1 -> MEDIUM_POOL_BLOCK_SIZE
                        [] i = 2 -> LARGE_POOL_BLOCK_SIZE
                        [] OTHER -> HUGE_POOL_BLOCK_SIZE,
      block_count |-> BlocksPerPool]]

\* init_memory_pool's layout arithmetic.
AlignedBlockSize(i) ==
  ((pool_configs[i].block_size + ALIGNMENT - 1) \div ALIGNMENT) * ALIGNMENT
TotalBlockSize(i) == HEADER_SIZE + AlignedBlockSize(i)
\* The address heap_caps_malloc returned for pool i's backing buffer.
PoolMemory(i) == (i + 1) * 65536
BlockAddr(i, k) == PoolMemory(i) + k * TotalBlockSize(i)

PoolHeaders(i) == {BlockAddr(i, k) : k \in 0..(pool_configs[i].block_count - 1)}
AllPoolHeaders == UNION {PoolHeaders(i) : i \in PoolIdx}

\* Pointers the general-purpose heap can return, and the address pool_free
\* takes for the header of each.
HeapPtrs == {1048576 + 8192 * k : k \in 1..NumHeap}
PtrOf(block) == block + HEADER_SIZE
HeaderOf(ptr) == ptr - HEADER_SIZE
HeapHeaders == {HeaderOf(h) : h \in HeapPtrs}
Headers == AllPoolHeaders \cup HeapHeaders
PoolPtrs == {PtrOf(b) : b \in AllPoolHeaders}

\* Request sizes: one per outcome of the class selection of smart_pool_malloc
\* (Small, Medium, Huge at its upper edge, no class).
Sizes == {48, 200, 4080, 4081}

\* allocations[]: MAX_ALLOCATIONS slots, the table cut to the bound.
MAX_ALLOCATIONS == NumSlots
Slots == 0..(MAX_ALLOCATIONS - 1)
\* Sizes asked of tracked_malloc (memory_pool_test_task's smallest class and
\* heap_integrity_test_task's buffer).
TrackedSizes == {64, 4096}
\* memory_optimization.c: the static buffers and their addresses; an
\* address inside a buffer is not the address of a buffer.
STATIC_BUFFER_COUNT == NumBuffers
STATIC_BUFFER_SIZE == 4096
Buffers == 0..(STATIC_BUFFER_COUNT - 1)
BufferAddr(k) == 2097152 + k * STATIC_BUFFER_SIZE
BufferAddrs == {BufferAddr(k) : k \in Buffers}
ForeignPtrs == {BufferAddr(0) + 1}

\* Counting-semaphore lab: the resources, the producer tasks and the load
\* generator; a task's number stands for its name, 0 for the empty name.
MAX_RESOURCES == NumResources
NUM_PRODUCERS == NumProducers
ResIdx == 0..(MAX_RESOURCES - 1)
Producers == 1..NUM_PRODUCERS
LoadGen == NUM_PRODUCERS + 1
SemTasks == Producers \cup {LoadGen}
NO_USER == 0

\* Mutex lab: the three workers of lines 85-107, and the texts the program
\* writes as sequences of character codes.
Workers == 1..3
TaskName == <<
  <<72, 73, 71, 72, 95, 80, 82, 73>>,   \* "HIGH_PRI"
  <<77, 69, 68, 95, 80, 82, 73>>,       \* "MED_PRI"
  <<76, 79, 87, 95, 80, 82, 73>> >>     \* "LOW_PRI"
\* "Initial state"
InitialState == <<73, 110, 105, 116, 105, 97, 108, 32, 115, 116, 97, 116, 101>>

\* %lu: the decimal digits of n.
RECURSIVE Decimal(_)
Decimal(n) == IF n < 10 THEN <<48 + n>> ELSE Decimal(n \div 10) \o <<48 + (n % 10)>>

\* snprintf(..., "Modified by %s #%lu", task_name, counter); the text stays
\* far below the 100 bytes of shared_buffer.
ModifiedText(t, n) ==
  <<77, 111, 100, 105, 102, 105, 101, 100, 32, 98, 121, 32>>   \* "Modified by "
    \o TaskName[t] \o <<32, 35>> \o Decimal(n)               \* " #"

\* calculate_checksum, lines 37-41: counter plus every character times its
\* position counted from one (the sums stay far below 2^32).
RECURSIVE WeightedSum(_, _)
WeightedSum(data, n) ==
  IF n = 0 THEN 0 ELSE WeightedSum(data, n - 1) + data[n] * n
calculate_checksum(data, counter) == counter + WeightedSum(data, Len(data))

\* Advances of esp_timer_get_time() in microseconds: the leak age, and one
\* millisecond more.
TimeSteps == {LEAK_AGE_MS * US_PER_MS, (LEAK_AGE_MS + 1) * US_PER_MS}

VARIABLES
  pools,      \* pools[i]: free_list and the counters of memory_pool_t
  blocks,     \* blocks[a]: the memory_block_t header at address a
  mutex,      \* mutex[i]: holder of pools[i].mutex, 0 when free
  led,        \* LED_POOL_FULL and LED_POOL_ERROR levels
  heap_live,  \* pointers the general-purpose heap has handed out and not freed
  pc, op, i, size, ptr, block,        \* per task: position, call, locals
  ret, ok,    \* per task: the pointer, the bool the last call returned
  held,       \* per task: the pointers it keeps (ptrs[] of pool_stress_task)
  released,   \* headers released by pool_free and not handed out since
  calls,      \* calls issued and clock advances made so far
  last_freed, \* per pool: the header pushed last, no block popped since
  allocations,   \* allocations[slot]: the tracker's table
  stats,         \* memory_stats_t
  memory_mutex,  \* holder of memory_mutex, 0 when free
  now,           \* esp_timer_get_time(), microseconds
  tptrs,         \* per task: pointers kept from tracked_malloc (ptrs[])
  mon_pc,        \* position of memory_monitor_task
  leaks,         \* slots the last leak scan reported
  freed_entries  \* slots whose entry's pointer tracked_free was called on

\* The three other programs.  Each one's state is a record whose fields are
\* the program's variables and, per task, the task's position and locals; it
\* is the empty tuple in a device that runs another program.
VARIABLES
  sb,   \* memory_optimization.c, the static buffer allocator
  cs,   \* mutex-critical-sections.c of the counting-semaphore lab
  mx    \* mutex-critical-sections.c of the mutex lab

\* memory_optimization.c.
static_buffer_used == sb.static_buffer_used    \* static_buffer_used[k], line 38
static_buffer_mutex == sb.static_buffer_mutex  \* holder of the mutex, 0 when free
static_allocations == sb.static_allocations    \* opt_stats.static_allocations
led_static == sb.led_static                    \* level of LED_STATIC_ALLOC

\* Counting-semaphore lab.
resources == cs.resources                    \* in_use, current_user, usage_count
xCountingSemaphore == cs.xCountingSemaphore  \* the count of the semaphore
sem_stats == cs.stats                        \* stats of line 45
led_resource == cs.led_resource              \* levels of LED_RESOURCE_1..3

\* Mutex lab.
shared_data == mx.shared_data    \* counter, shared_buffer, checksum, access_count
xMutex == mx.xMutex              \* holder of xMutex, 0 when free
access_stats == mx.stats         \* stats of line 35
led_task == mx.led_task          \* per worker: level of its LED
led_critical == mx.led_critical  \* level of LED_CRITICAL
temp_counter == mx.temp_counter  \* per worker: the local of line 45

\* The state of the other programs, which the allocators leave alone.
labVars == <<sb, cs, mx>>

trackerVars == <<allocations, stats, memory_mutex, now, tptrs, mon_pc, leaks,
                 freed_entries, labVars>>

vars == <<pools, blocks, mutex, led, heap_live, pc, op, i, size, ptr, block,
          ret, ok, held, released, calls, last_freed, trackerVars>>

(***************************************************************************)
(* init_memory_pool: every block FREE with the pool's id (index + 1), each *)
(* block linked in front of the previous one, so the last slot is the head.*)
(***************************************************************************)
\* A list whose last block links back to the head instead of ending.
InitBlockCircular(idx, k) ==
  [next    |-> IF k = 0 THEN BlockAddr(idx, pool_configs[idx].block_count - 1)
               ELSE BlockAddr(idx, k - 1),
   magic   |-> POOL_MAGIC_FREE,
   pool_id |-> idx + 1]

\* Blocks linked towards the higher slot: the list from the last slot has
\* one block.
InitBlockAscending(idx, k) ==
  [next    |-> IF k = pool_configs[idx].block_count - 1 THEN NULL
               ELSE BlockAddr(idx, k + 1),
   magic   |-> POOL_MAGIC_FREE,
   pool_id |-> idx + 1]

InitBlock(idx, k) ==
  [next    |-> IF k = 0 THEN NULL ELSE BlockAddr(idx, k - 1),
   magic   |-> POOL_MAGIC_FREE,
   pool_id |-> idx + 1]

InitPool(idx) ==
  [pool_id             |-> idx + 1,
   block_size          |-> pool_configs[idx].block_size,
   block_count         |-> pool_configs[idx].block_count,
   free_list           |-> BlockAddr(idx, pool_configs[idx].block_count - 1),
   allocated_blocks    |-> 0,
   peak_usage          |-> 0,
   total_allocations   |-> 0,
   total_deallocations |-> 0,
   allocation_failures |-> 0]

UnknownHeader == [next |-> NULL, magic |-> UNKNOWN, pool_id |-> UNKNOWN_ID]

InitBlocks ==
  [a \in Headers |->
     IF a \in AllPoolHeaders
     THEN LET idx == CHOOSE j \in PoolIdx : a \in PoolHeaders(j)
              k   == CHOOSE n \in 0..(pool_configs[idx].block_count - 1) :
                       BlockAddr(idx, n) = a
          IN InitBlock(idx, k)
     ELSE UnknownHeader]

\* heap_management.c: the zeroed statics and app_main's memset and mutex.
InitAllocation == [ptr |-> NULL, size |-> 0, timestamp |-> 0, is_active |-> FALSE]

InitStats ==
  [total_allocations       |-> 0,
   total_deallocations     |-> 0,
   current_allocations     |-> 0,
   total_bytes_allocated   |-> 0,
   total_bytes_deallocated |-> 0,
   peak_usage              |-> 0,
   allocation_failures     |-> 0]

InitTracker ==
  /\ allocations = [slot \in Slots |-> InitAllocation]
  /\ stats = InitStats
  /\ memory_mutex = 0
  /\ now = 0
  /\ tptrs = [t \in Tasks |-> {}]
  /\ mon_pc = "delay"
  /\ leaks = {}
  /\ freed_entries = {}

\* memory_optimization.c: static_buffer_used = {false} (line 38), opt_stats
\* = {0} (line 56), the mutex of line 259.
InitStatic ==
  sb = [static_buffer_used |-> [k \in Buffers |-> FALSE],
        static_buffer_mutex |-> 0,
        static_allocations |-> 0,
        led_static |-> FALSE,
        pc |-> [t \in Tasks |-> "idle"],
        i |-> [t \in Tasks |-> 0],
        arg |-> [t \in Tasks |-> NULL],
        ret |-> [t \in Tasks |-> NULL],
        held |-> [t \in Tasks |-> {}],
        calls |-> 0]

\* Counting-semaphore lab: resources[] of lines 32-36, stats of line 45,
\* xSemaphoreCreateCounting(MAX_RESOURCES, MAX_RESOURCES) of line 193, the
\* LEDs of lines 187-189.
InitSem ==
  cs = [resources |-> [k \in ResIdx |->
          [in_use |-> FALSE, current_user |-> NO_USER, usage_count |-> 0]],
        xCountingSemaphore |-> MAX_RESOURCES,
        stats |-> [total_requests |-> 0, successful_acquisitions |-> 0,
                   failed_acquisitions |-> 0, resources_in_use |-> 0],
        led_resource |-> [k \in ResIdx |-> FALSE],
        pc |-> [t \in SemTasks |-> "idle"],
        i |-> [t \in SemTasks |-> 0],
        res |-> [t \in SemTasks |-> 0],
        tmp |-> [t \in SemTasks |-> 0],
        rounds |-> 0]

\* Mutex lab: shared_data as app_main leaves it (lines 27, 151-153), stats
\* of line 35, the LEDs of lines 143-146 and the mutex of line 148.
InitMutexLab ==
  mx = [shared_data |-> [counter |-> 0, shared_buffer |-> InitialState,
                         checksum |-> calculate_checksum(InitialState, 0),
                         access_count |-> 0],
        xMutex |-> 0,
        stats |-> [successful_access |-> 0, failed_access |-> 0,
                   corruption_detected |-> 0],
        led_task |-> [t \in Workers |-> FALSE],
        led_critical |-> FALSE,
        pc |-> [t \in Workers |-> "idle"],
        temp_counter |-> [t \in Workers |-> 0],
        mon_counter |-> 0,
        mon_calc |-> 0,
        mon_pc |-> "idle",
        rounds |-> 0]

Init ==
  /\ pools = [idx \in PoolIdx |-> InitPool(idx)]
  /\ blocks = InitBlocks
  /\ mutex = [idx \in PoolIdx |-> 0]
  /\ led = [full |-> FALSE, error |-> FALSE]
  /\ heap_live = {}
  /\ pc = [t \in Tasks |-> "idle"]
  /\ op = [t \in Tasks |-> "none"]
  /\ i = [t \in Tasks |-> 0]
  /\ size = [t \in Tasks |-> 0]
  /\ ptr = [t \in Tasks |-> NULL]
  /\ block = [t \in Tasks |-> NULL]
  /\ ret = [t \in Tasks |-> NULL]
  /\ ok = [t \in Tasks |-> FALSE]
  /\ held = [t \in Tasks |-> {}]
  /\ released = {}
  /\ calls = 0
  /\ last_freed = [idx \in PoolIdx |-> NULL]
  /\ InitTracker
  /\ sb = <<>>
  /\ cs = <<>>
  /\ mx = <<>>

MallocOps == {"pool_malloc", "smart_malloc"}
FreeOps == {"pool_free", "smart_free"}

(***************************************************************************)
(* smart_pool_malloc's loop: the next index from `from` on whose block     *)
(* size holds the request plus the overhead; POOL_COUNT when the loop ends.*)
(***************************************************************************)
\* A test that forgets the overhead.
FitsNoOverhead(s, idx) == s <= pools[idx].block_size

Fits(s, idx) == s + SMART_OVERHEAD <= pools[idx].block_size

\* Loops that stop after the first fitting pool, or pick the largest one.
NextFitFirstOnly(s, from) ==
  IF from = 0 /\ \E j \in PoolIdx : Fits(s, j)
  THEN CHOOSE j \in PoolIdx :
         Fits(s, j) /\ \A n \in PoolIdx : Fits(s, n) => j <= n
  ELSE POOL_COUNT

NextFitLargest(s, from) ==
  IF \E j \in PoolIdx : j >= from /\ Fits(s, j)
  THEN CHOOSE j \in PoolIdx :
         /\ j >= from
         /\ Fits(s, j)
         /\ \A n \in PoolIdx : (n >= from /\ Fits(s, n)) => j >= n
  ELSE POOL_COUNT

NextFit(s, from) ==
  IF \E j \in PoolIdx : j >= from /\ Fits(s, j)
  THEN CHOOSE j \in PoolIdx :
         /\ j >= from
         /\ Fits(s, j)
         /\ \A n \in PoolIdx : (n >= from /\ Fits(s, n)) => j <= n
  ELSE POOL_COUNT

\* A take that never waits: no mutual exclusion.
MutexAlwaysAvailable(idx) == TRUE

\* xSemaphoreTake(pool->mutex, 100 ms) succeeds when the mutex is free.
MutexAvailable(idx) == mutex[idx] = 0

\* pool_free's validation, line 167.  Reading a header the program never
\* wrote (in front of a heap pointer) can give either answer.
MagicIsAlloc(b) ==
  IF blocks[b].magic = UNKNOWN THEN BOOLEAN
  ELSE {blocks[b].magic = POOL_MAGIC_ALLOC}

IdMatches(idx, b) ==
  IF blocks[b].pool_id = UNKNOWN_ID THEN BOOLEAN
  ELSE {blocks[b].pool_id = pools[idx].pool_id}

\* Validations that forget one of the two tests.
ValidOutcomesNoMagic(idx, b) == IdMatches(idx, b)
ValidOutcomesNoId(idx, b) == MagicIsAlloc(b)

ValidOutcomes(idx, b) ==
  {m /\ q : m \in MagicIsAlloc(b), q \in IdMatches(idx, b)}

\* pool_free's return value, line 178.
PoolFreeReturn == TRUE

(***************************************************************************)
(* The caller's code after pool_malloc / pool_free returned r to task t:   *)
(* a direct call is over; smart_pool_malloc returns a non-NULL pointer and *)
(* moves on to the next fitting pool otherwise; smart_pool_free returns on *)
(* true and moves on to the next pool otherwise.  A call that returns      *)
(* leaves its result behind; its arguments and loop index are gone.        *)
(***************************************************************************)
Resume(t, r) ==
  CASE op[t] \in {"pool_malloc", "pool_free"} ->
         /\ pc' = [pc EXCEPT ![t] = "idle"]
         /\ IF op[t] = "pool_malloc"
            THEN ret' = [ret EXCEPT ![t] = r] /\ UNCHANGED ok
            ELSE ok' = [ok EXCEPT ![t] = r] /\ UNCHANGED ret
         /\ i' = [i EXCEPT ![t] = 0]
         /\ ptr' = [ptr EXCEPT ![t] = NULL]
         /\ UNCHANGED held
    [] op[t] = "smart_malloc" ->
         IF r # NULL
         THEN /\ pc' = [pc EXCEPT ![t] = "idle"]
              /\ ret' = [ret EXCEPT ![t] = r]
              /\ held' = [held EXCEPT ![t] = @ \cup {r}]
              /\ i' = [i EXCEPT ![t] = 0]
              /\ UNCHANGED <<ptr, ok>>
         ELSE /\ i' = [i EXCEPT ![t] = NextFit(size[t], i[t] + 1)]
              /\ pc' = [pc EXCEPT ![t] =
                          IF NextFit(size[t], i[t] + 1) < POOL_COUNT
                          THEN "take" ELSE "sm_heap"]
              /\ ret' = [ret EXCEPT ![t] = NULL]
              /\ UNCHANGED <<held, ptr, ok>>
    [] op[t] = "smart_free" ->
         IF r
         THEN /\ pc' = [pc EXCEPT ![t] = "idle"]
              /\ ok' = [ok EXCEPT ![t] = TRUE]
              /\ held' = [held EXCEPT ![t] = @ \ {ptr[t]}]
              /\ i' = [i EXCEPT ![t] = 0]
              /\ ptr' = [ptr EXCEPT ![t] = NULL]
              /\ UNCHANGED ret
         ELSE /\ i' = [i EXCEPT ![t] = i[t] + 1]
              /\ pc' = [pc EXCEPT ![t] =
                          IF i[t] + 1 < POOL_COUNT THEN "take" ELSE "sf_heap"]
              /\ UNCHANGED <<ret, ok, held, ptr>>

(***************************************************************************)
(* Direct calls of pool_malloc and pool_free.                              *)
(***************************************************************************)
PoolMallocCall(t, idx) ==
  /\ pc[t] = "idle"
  /\ calls < MaxCalls
  /\ calls' = calls + 1
  /\ op' = [op EXCEPT ![t] = "pool_malloc"]
  /\ i' = [i EXCEPT ![t] = idx]
  /\ size' = [size EXCEPT ![t] = 0]
  /\ ptr' = [ptr EXCEPT ![t] = NULL]
  /\ ret' = [ret EXCEPT ![t] = NULL]
  /\ ok' = [ok EXCEPT ![t] = FALSE]
  /\ pc' = [pc EXCEPT ![t] = "take"]
  /\ UNCHANGED <<pools, blocks, mutex, led, heap_live, block, held, released>>
  /\ UNCHANGED <<last_freed, trackerVars>>

\* pool_free(&pools[idx], p); a NULL pointer returns false at once (line 164).
PoolFreeCall(t, idx, p) ==
  /\ pc[t] = "idle"
  /\ calls < MaxCalls
  /\ calls' = calls + 1
  /\ op' = [op EXCEPT ![t] = "pool_free"]
  /\ i' = [i EXCEPT ![t] = idx]
  /\ size' = [size EXCEPT ![t] = 0]
  /\ ptr' = [ptr EXCEPT ![t] = p]
  /\ ret' = [ret EXCEPT ![t] = NULL]
  /\ ok' = [ok EXCEPT ![t] = FALSE]
  /\ pc' = [pc EXCEPT ![t] = IF p = NULL THEN "idle" ELSE "take"]
  /\ UNCHANGED <<pools, blocks, mutex, led, heap_live, block, held, released>>
  /\ UNCHANGED <<last_freed, trackerVars>>

(***************************************************************************)
(* pool_malloc, lines 142-161.                                             *)
(***************************************************************************)
\* The mutex is taken and the head of the free list is read.
PoolMallocTake(t) ==
  /\ pc[t] = "take"
  /\ op[t] \in MallocOps
  /\ MutexAvailable(i[t])
  /\ mutex' = [mutex EXCEPT ![i[t]] = t]
  /\ block' = [block EXCEPT ![t] = pools[i[t]].free_list]
  /\ pc' = [pc EXCEPT ![t] =
              IF pools[i[t]].free_list # NULL THEN "malloc_pop" ELSE "malloc_fail"]
  /\ UNCHANGED <<pools, blocks, led, heap_live, op, i, size, ptr, ret, ok, held,
                 released, calls>>
  /\ UNCHANGED <<last_freed, trackerVars>>

\* Lines 147-153 and the give: the head is popped and tagged ALLOCATED.
PoolMallocPop(t) ==
  /\ pc[t] = "malloc_pop"
  /\ pools' = [pools EXCEPT ![i[t]] =
                 [@ EXCEPT !.free_list = blocks[block[t]].next,
                           !.allocated_blocks = Inc(@),
                           !.total_allocations = @ + 1]]
  /\ blocks' = [blocks EXCEPT ![block[t]].magic = POOL_MAGIC_ALLOC]
  /\ released' = released \ {block[t]}
  /\ mutex' = [mutex EXCEPT ![i[t]] = 0]
  /\ block' = [block EXCEPT ![t] = NULL]
  /\ Resume(t, PtrOf(block[t]))
  /\ UNCHANGED <<led, heap_live, op, size, calls>>
  /\ last_freed' = [last_freed EXCEPT ![i[t]] = NULL]
  /\ UNCHANGED trackerVars

\* An exhaustion path that returns without giving the mutex.
PoolMallocFailKeepsMutex(t) ==
  /\ pc[t] = "malloc_fail"
  /\ pools' = [pools EXCEPT ![i[t]].allocation_failures = @ + 1]
  /\ led' = [led EXCEPT !.full = TRUE]
  /\ block' = [block EXCEPT ![t] = NULL]
  /\ Resume(t, NULL)
  /\ UNCHANGED <<blocks, mutex, heap_live, op, size, released, calls,
                 last_freed, trackerVars>>

\* An allocation that, on an empty free list, waits for a release while it
\* holds the mutex.
PoolMallocFailWaits(t) ==
  /\ pc[t] = "malloc_fail"
  /\ pools[i[t]].free_list # NULL
  /\ pc' = [pc EXCEPT ![t] = "malloc_pop"]
  /\ block' = [block EXCEPT ![t] = pools[i[t]].free_list]
  /\ UNCHANGED <<pools, blocks, mutex, led, heap_live, op, i, size, ptr, ret,
                 ok, held, released, calls, last_freed, trackerVars>>

\* Lines 155-156 and the give: the free list is empty.
PoolMallocFail(t) ==
  /\ pc[t] = "malloc_fail"
  /\ pools' = [pools EXCEPT ![i[t]].allocation_failures = @ + 1]
  /\ led' = [led EXCEPT !.full = TRUE]
  /\ mutex' = [mutex EXCEPT ![i[t]] = 0]
  /\ block' = [block EXCEPT ![t] = NULL]
  /\ Resume(t, NULL)
  /\ UNCHANGED <<blocks, heap_live, op, size, released, calls>>
  /\ UNCHANGED <<last_freed, trackerVars>>

(***************************************************************************)
(* pool_free, lines 163-179.                                               *)
(***************************************************************************)
\* The mutex is taken and the header in front of the pointer is validated.
PoolFreeTake(t) ==
  /\ pc[t] = "take"
  /\ op[t] \in FreeOps
  /\ MutexAvailable(i[t])
  /\ mutex' = [mutex EXCEPT ![i[t]] = t]
  /\ block' = [block EXCEPT ![t] = HeaderOf(ptr[t])]
  /\ \E v \in ValidOutcomes(i[t], HeaderOf(ptr[t])) :
       pc' = [pc EXCEPT ![t] = IF v THEN "free_push" ELSE "free_err"]
  /\ UNCHANGED <<pools, blocks, led, heap_live, op, i, size, ptr, ret, ok, held,
                 released, calls>>
  /\ UNCHANGED <<last_freed, trackerVars>>

\* A release that appends the block at the tail of the free list.
PoolFreePushTail(t) ==
  /\ pc[t] = "free_push"
  /\ LET tails == {b \in PoolHeaders(i[t]) :
                     blocks[b].magic = POOL_MAGIC_FREE /\ blocks[b].next = NULL}
     IN IF pools[i[t]].free_list = NULL \/ tails = {}
        THEN /\ blocks' = [blocks EXCEPT ![block[t]] =
                             [@ EXCEPT !.magic = POOL_MAGIC_FREE, !.next = NULL]]
             /\ pools' = [pools EXCEPT ![i[t]] =
                            [@ EXCEPT !.free_list = block[t],
                                      !.allocated_blocks = Dec(@),
                                      !.total_deallocations = @ + 1]]
        ELSE /\ blocks' = [blocks EXCEPT
                             ![block[t]] = [@ EXCEPT !.magic = POOL_MAGIC_FREE,
                                                     !.next = NULL],
                             ![CHOOSE b \in tails : TRUE].next = block[t]]
             /\ pools' = [pools EXCEPT ![i[t]] =
                            [@ EXCEPT !.allocated_blocks = Dec(@),
                                      !.total_deallocations = @ + 1]]
  /\ released' = released \cup {block[t]}
  /\ mutex' = [mutex EXCEPT ![i[t]] = 0]
  /\ block' = [block EXCEPT ![t] = NULL]
  /\ Resume(t, PoolFreeReturn)
  /\ UNCHANGED <<led, heap_live, op, size, calls>>
  /\ last_freed' = [last_freed EXCEPT ![i[t]] = block[t]]
  /\ UNCHANGED trackerVars

\* Lines 168-172 and the give: the block is tagged FREE and pushed.
PoolFreePush(t) ==
  /\ pc[t] = "free_push"
  /\ blocks' = [blocks EXCEPT ![block[t]] =
                  [@ EXCEPT !.magic = POOL_MAGIC_FREE,
                            !.next = pools[i[t]].free_list]]
  /\ pools' = [pools EXCEPT ![i[t]] =
                 [@ EXCEPT !.free_list = block[t],
                           !.allocated_blocks = Dec(@),
                           !.total_deallocations = @ + 1]]
  /\ released' = released \cup {block[t]}
  /\ mutex' = [mutex EXCEPT ![i[t]] = 0]
  /\ block' = [block EXCEPT ![t] = NULL]
  /\ Resume(t, PoolFreeReturn)
  /\ UNCHANGED <<led, heap_live, op, size, calls>>
  /\ last_freed' = [last_freed EXCEPT ![i[t]] = block[t]]
  /\ UNCHANGED trackerVars

\* A validation failure that returns without giving the mutex.
PoolFreeErrKeepsMutex(t) ==
  /\ pc[t] = "free_err"
  /\ led' = [led EXCEPT !.error = TRUE]
  /\ block' = [block EXCEPT ![t] = NULL]
  /\ Resume(t, PoolFreeReturn)
  /\ UNCHANGED <<pools, blocks, mutex, heap_live, op, size, released, calls>>
  /\ UNCHANGED <<last_freed, trackerVars>>

\* Line 174 and the give: the validation failed.
PoolFreeErr(t) ==
  /\ pc[t] = "free_err"
  /\ led' = [led EXCEPT !.error = TRUE]
  /\ mutex' = [mutex EXCEPT ![i[t]] = 0]
  /\ block' = [block EXCEPT ![t] = NULL]
  /\ Resume(t, PoolFreeReturn)
  /\ UNCHANGED <<pools, blocks, heap_live, op, size, released, calls>>
  /\ UNCHANGED <<last_freed, trackerVars>>

\* A timed-out take that is counted like an exhausted pool.
TakeTimeoutCountsFailure(t) ==
  /\ pc[t] = "take"
  /\ mutex[i[t]] # 0
  /\ pools' = [pools EXCEPT ![i[t]].allocation_failures =
                 IF op[t] \in MallocOps THEN @ + 1 ELSE @]
  /\ Resume(t, IF op[t] \in MallocOps THEN NULL ELSE PoolFreeReturn)
  /\ UNCHANGED <<blocks, mutex, led, heap_live, op, size, block,
                 released, calls>>
  /\ UNCHANGED <<last_freed, trackerVars>>

\* xSemaphoreTake gives up after 100 ms while another task holds the mutex:
\* pool_malloc returns its NULL result, pool_free returns true.
TakeTimeout(t) ==
  /\ pc[t] = "take"
  /\ mutex[i[t]] # 0
  /\ Resume(t, IF op[t] \in MallocOps THEN NULL ELSE PoolFreeReturn)
  /\ UNCHANGED <<pools, blocks, mutex, led, heap_live, op, size, block,
                 released, calls>>
  /\ UNCHANGED <<last_freed, trackerVars>>

PoolStep(t) ==
  \/ PoolMallocTake(t)
  \/ PoolMallocPop(t)
  \/ PoolMallocFail(t)
  \/ PoolFreeTake(t)
  \/ PoolFreePush(t)
  \/ PoolFreeErr(t)
  \/ TakeTimeout(t)

(***************************************************************************)
(* Tasks calling pool_malloc and pool_free directly, with any pointer into *)
(* a pool (double frees and frees into the wrong pool included).           *)
(***************************************************************************)
\* The pools called directly: the pool under test and one foreign pool.
DirectPools == {0, 1}
DirectPtrs == {PtrOf(b) : b \in UNION {PoolHeaders(idx) : idx \in DirectPools}}

NextPool ==
  \E t \in Tasks :
    \/ \E idx \in DirectPools : PoolMallocCall(t, idx)
    \/ \E idx \in DirectPools : \E p \in DirectPtrs \cup {NULL} : PoolFreeCall(t, idx, p)
    \/ PoolStep(t)

SpecPool == Init /\ [][NextPool]_vars

\* A task inside pool_malloc or pool_free is ready to run, or waits on a take
\* that the tick interrupt ends after 100 ms: the scheduler lets each such
\* task take its next step (each step moves the task's position or its pool
\* index).  Nothing obliges an idle task to call.
position == <<pc, i>>
SpecPoolFair == SpecPool /\ \A t \in Tasks : WF_position(PoolStep(t))

(***************************************************************************)
(* smart_pool_malloc and smart_pool_free, lines 182-204, called the way    *)
(* pool_stress_task does: a task keeps the pointers it was given and frees *)
(* pointers it keeps.                                                      *)
(***************************************************************************)
\* Entry and the loop up to the first fitting pool.
SmartMallocCall(t, s) ==
  /\ pc[t] = "idle"
  /\ calls < MaxCalls
  /\ calls' = calls + 1
  /\ op' = [op EXCEPT ![t] = "smart_malloc"]
  /\ size' = [size EXCEPT ![t] = s]
  /\ i' = [i EXCEPT ![t] = NextFit(s, 0)]
  /\ ptr' = [ptr EXCEPT ![t] = NULL]
  /\ ret' = [ret EXCEPT ![t] = NULL]
  /\ ok' = [ok EXCEPT ![t] = FALSE]
  /\ pc' = [pc EXCEPT ![t] = IF NextFit(s, 0) < POOL_COUNT THEN "take" ELSE "sm_heap"]
  /\ UNCHANGED <<pools, blocks, mutex, led, heap_live, block, held, released>>
  /\ UNCHANGED <<last_freed, trackerVars>>

\* Line 195: heap_caps_malloc returns a pointer not in use, or NULL.
SmartMallocHeap(t) ==
  /\ pc[t] = "sm_heap"
  /\ \E h \in (HeapPtrs \ heap_live) \cup {NULL} :
       /\ ret' = [ret EXCEPT ![t] = h]
       /\ heap_live' = IF h = NULL THEN heap_live ELSE heap_live \cup {h}
       /\ held' = [held EXCEPT ![t] = IF h = NULL THEN @ ELSE @ \cup {h}]
  /\ pc' = [pc EXCEPT ![t] = "idle"]
  /\ i' = [i EXCEPT ![t] = 0]
  /\ UNCHANGED <<pools, blocks, mutex, led, op, size, ptr, block, released, calls>>
  /\ UNCHANGED <<last_freed, trackerVars>>
  /\ UNCHANGED ok

\* Entry and the loop's first pool_free; with a NULL pointer every pool_free
\* returns false at once and the loop runs through.
SmartFreeCall(t, p) ==
  /\ pc[t] = "idle"
  /\ calls < MaxCalls
  /\ calls' = calls + 1
  /\ op' = [op EXCEPT ![t] = "smart_free"]
  /\ size' = [size EXCEPT ![t] = 0]
  /\ ptr' = [ptr EXCEPT ![t] = p]
  /\ i' = [i EXCEPT ![t] = IF p = NULL THEN POOL_COUNT ELSE 0]
  /\ ret' = [ret EXCEPT ![t] = NULL]
  /\ ok' = [ok EXCEPT ![t] = FALSE]
  /\ pc' = [pc EXCEPT ![t] = IF p = NULL THEN "sf_heap" ELSE "take"]
  /\ UNCHANGED <<pools, blocks, mutex, led, heap_live, block, held, released>>
  /\ UNCHANGED <<last_freed, trackerVars>>

\* Lines 202-203: heap_caps_free(ptr); return true.
SmartFreeHeap(t) ==
  /\ pc[t] = "sf_heap"
  /\ heap_live' = heap_live \ {ptr[t]}
  /\ held' = [held EXCEPT ![t] = @ \ {ptr[t]}]
  /\ ok' = [ok EXCEPT ![t] = TRUE]
  /\ UNCHANGED ret
  /\ pc' = [pc EXCEPT ![t] = "idle"]
  /\ i' = [i EXCEPT ![t] = 0]
  /\ ptr' = [ptr EXCEPT ![t] = NULL]
  /\ UNCHANGED <<pools, blocks, mutex, led, op, size, block, released, calls>>
  /\ UNCHANGED <<last_freed, trackerVars>>

Next ==
  \E t \in Tasks :
    \/ \E s \in Sizes : SmartMallocCall(t, s)
    \/ \E p \in held[t] \cup {NULL} : SmartFreeCall(t, p)
    \/ SmartMallocHeap(t)
    \/ SmartFreeHeap(t)
    \/ PoolStep(t)

Spec == Init /\ [][Next]_vars

(***************************************************************************)
(* The allocation tracker of the heap-management lab (heap_management.c):  *)
(* tracked_malloc, tracked_free, print_allocation_summary and              *)
(* detect_memory_leaks under memory_mutex.  The caps and description       *)
(* fields of an entry and the log lines take no part in any decision and   *)
(* are left out; the raw allocator is the heap of heap_live.               *)
(***************************************************************************)
poolVars == <<pools, blocks, mutex, led, released, last_freed, i, block, held, ok,
              labVars>>

\* Line 55; nothing in the program clears it.
memory_monitoring_enabled == TRUE

\* xSemaphoreTake(memory_mutex, ...) succeeds when the mutex is free.
MemoryMutexAvailable == memory_mutex = 0

\* find_free_allocation_slot that hands out entry 0 when every entry is
\* active.
find_free_allocation_slot_reuse ==
  IF \E slot \in Slots : ~allocations[slot].is_active
  THEN CHOOSE slot \in Slots :
         /\ ~allocations[slot].is_active
         /\ \A n \in Slots : ~allocations[n].is_active => slot <= n
  ELSE 0

\* find_free_allocation_slot that takes only entries never used before.
find_free_allocation_slot_fresh ==
  IF \E slot \in Slots : ~allocations[slot].is_active /\ allocations[slot].ptr = NULL
  THEN CHOOSE slot \in Slots :
         /\ ~allocations[slot].is_active /\ allocations[slot].ptr = NULL
         /\ \A n \in Slots :
              (~allocations[n].is_active /\ allocations[n].ptr = NULL) => slot <= n
  ELSE -1

\* Lines 58-63: the first inactive slot, -1 when every slot is active.
find_free_allocation_slot ==
  IF \E slot \in Slots : ~allocations[slot].is_active
  THEN CHOOSE slot \in Slots :
         /\ ~allocations[slot].is_active
         /\ \A n \in Slots : ~allocations[n].is_active => slot <= n
  ELSE -1

\* Lines 65-70: the first active slot holding the pointer, -1 when none does.
find_allocation_by_ptr(p) ==
  IF \E slot \in Slots : allocations[slot].is_active /\ allocations[slot].ptr = p
  THEN CHOOSE slot \in Slots :
         /\ allocations[slot].is_active /\ allocations[slot].ptr = p
         /\ \A n \in Slots :
              (allocations[n].is_active /\ allocations[n].ptr = p) => slot <= n
  ELSE -1

\* Line 74 and the test of line 76: the raw allocation comes first and
\* returns h, a pointer not in use, or NULL.
TrackedMallocCall(t, s, h) ==
  /\ pc[t] = "idle"
  /\ calls' = calls + 1
  /\ op' = [op EXCEPT ![t] = "tracked_malloc"]
  /\ size' = [size EXCEPT ![t] = s]
  /\ h = NULL \/ h \notin heap_live
  /\ ptr' = [ptr EXCEPT ![t] = h]
  /\ heap_live' = IF h = NULL THEN heap_live ELSE heap_live \cup {h}
  /\ ret' = [ret EXCEPT ![t] = NULL]
  /\ pc' = [pc EXCEPT ![t] = IF memory_monitoring_enabled THEN "tm_take" ELSE "tm_return"]
  /\ UNCHANGED <<poolVars, trackerVars>>

\* Line 106: return ptr; the caller keeps a pointer that is not NULL.
TrackedMallocReturn(t) ==
  /\ ret' = [ret EXCEPT ![t] = ptr[t]]
  /\ tptrs' = [tptrs EXCEPT ![t] = IF ptr[t] = NULL THEN @ ELSE @ \cup {ptr[t]}]
  /\ ptr' = [ptr EXCEPT ![t] = NULL]
  /\ pc' = [pc EXCEPT ![t] = "idle"]

\* Line 77, the take succeeds.
TrackedMallocTake(t) ==
  /\ pc[t] = "tm_take"
  /\ MemoryMutexAvailable
  /\ memory_mutex' = t
  /\ pc' = [pc EXCEPT ![t] = "tm_record"]
  /\ UNCHANGED <<poolVars, heap_live, op, size, ptr, ret, calls, allocations,
                 stats, now, tptrs, mon_pc, leaks, freed_entries>>

\* tracked_malloc that stores current_usage into peak_usage without the
\* comparison of line 92.
TrackedMallocRecordPeakIsCurrent(t) ==
  /\ pc[t] = "tm_record"
  /\ LET slot == find_free_allocation_slot
         bytes == stats.total_bytes_allocated + size[t]
         current_usage == bytes - stats.total_bytes_deallocated
     IN IF ptr[t] # NULL
        THEN IF slot >= 0
             THEN /\ allocations' = [allocations EXCEPT ![slot] =
                                       [ptr |-> ptr[t], size |-> size[t],
                                        timestamp |-> now, is_active |-> TRUE]]
                  /\ stats' = [stats EXCEPT
                                 !.total_allocations = @ + 1,
                                 !.current_allocations = @ + 1,
                                 !.total_bytes_allocated = bytes,
                                 !.peak_usage = current_usage]
                  /\ freed_entries' = freed_entries \ {slot}
             ELSE UNCHANGED <<allocations, stats, freed_entries>>
        ELSE /\ stats' = [stats EXCEPT !.allocation_failures = @ + 1]
             /\ UNCHANGED <<allocations, freed_entries>>
  /\ memory_mutex' = 0
  /\ TrackedMallocReturn(t)
  /\ UNCHANGED <<poolVars, heap_live, op, size, calls, now, mon_pc, leaks>>

\* tracked_malloc that counts a full table as an allocation failure.
TrackedMallocRecordFullIsFailure(t) ==
  /\ pc[t] = "tm_record"
  /\ LET slot == find_free_allocation_slot
         bytes == stats.total_bytes_allocated + size[t]
         current_usage == bytes - stats.total_bytes_deallocated
     IN IF ptr[t] # NULL /\ slot >= 0
        THEN /\ allocations' = [allocations EXCEPT ![slot] =
                                  [ptr |-> ptr[t], size |-> size[t],
                                   timestamp |-> now, is_active |-> TRUE]]
             /\ stats' = [stats EXCEPT
                            !.total_allocations = @ + 1,
                            !.current_allocations = @ + 1,
                            !.total_bytes_allocated = bytes,
                            !.peak_usage = IF current_usage > @
                                           THEN current_usage ELSE @]
             /\ freed_entries' = freed_entries \ {slot}
        ELSE /\ stats' = [stats EXCEPT !.allocation_failures = @ + 1]
             /\ UNCHANGED <<allocations, freed_entries>>
  /\ memory_mutex' = 0
  /\ TrackedMallocReturn(t)
  /\ UNCHANGED <<poolVars, heap_live, op, size, calls, now, mon_pc, leaks>>

\* Lines 78-103 and the return: the entry is written into the first free
\* slot, or the failure is counted; the mutex is given.
TrackedMallocRecord(t) ==
  /\ pc[t] = "tm_record"
  /\ LET slot == find_free_allocation_slot
         bytes == stats.total_bytes_allocated + size[t]
         current_usage == bytes - stats.total_bytes_deallocated
     IN IF ptr[t] # NULL
        THEN IF slot >= 0
             THEN /\ allocations' = [allocations EXCEPT ![slot] =
                                       [ptr |-> ptr[t], size |-> size[t],
                                        timestamp |-> now, is_active |-> TRUE]]
                  /\ stats' = [stats EXCEPT
                                 !.total_allocations = @ + 1,
                                 !.current_allocations = @ + 1,
                                 !.total_bytes_allocated = bytes,
                                 !.peak_usage = IF current_usage > @
                                                THEN current_usage ELSE @]
                  /\ freed_entries' = freed_entries \ {slot}
             ELSE UNCHANGED <<allocations, stats, freed_entries>>
        ELSE /\ stats' = [stats EXCEPT !.allocation_failures = @ + 1]
             /\ UNCHANGED <<allocations, freed_entries>>
  /\ memory_mutex' = 0
  /\ TrackedMallocReturn(t)
  /\ UNCHANGED <<poolVars, heap_live, op, size, calls, now, mon_pc, leaks>>

\* Line 110 and the test of line 112.
TrackedFreeCall(t, p) ==
  /\ pc[t] = "idle"
  /\ calls' = calls + 1
  /\ op' = [op EXCEPT ![t] = "tracked_free"]
  /\ size' = [size EXCEPT ![t] = 0]
  /\ ptr' = [ptr EXCEPT ![t] = p]
  /\ ret' = [ret EXCEPT ![t] = NULL]
  /\ pc' = [pc EXCEPT ![t] = IF p = NULL THEN "idle"
                             ELSE IF memory_monitoring_enabled THEN "tf_take"
                             ELSE "tf_return"]
  /\ UNCHANGED <<poolVars, heap_live, trackerVars>>

\* Line 128 and the return: heap_caps_free(ptr).  The entries that still
\* hold the pointer are those tracked_free was called on.
TrackedFreeReturn(t, table) ==
  /\ heap_live' = heap_live \ {ptr[t]}
  /\ tptrs' = [tptrs EXCEPT ![t] = @ \ {ptr[t]}]
  /\ freed_entries' = freed_entries \cup
       {slot \in Slots : table[slot].is_active /\ table[slot].ptr = ptr[t]}
  /\ ptr' = [ptr EXCEPT ![t] = NULL]
  /\ pc' = [pc EXCEPT ![t] = "idle"]

\* Line 113, the take succeeds.
TrackedFreeTake(t) ==
  /\ pc[t] = "tf_take"
  /\ MemoryMutexAvailable
  /\ memory_mutex' = t
  /\ pc' = [pc EXCEPT ![t] = "tf_update"]
  /\ UNCHANGED <<poolVars, heap_live, op, size, ptr, ret, calls, allocations,
                 stats, now, tptrs, mon_pc, leaks, freed_entries>>

\* tracked_free without the decrement of line 117.
TrackedFreeUpdateKeepsCount(t) ==
  /\ pc[t] = "tf_update"
  /\ LET slot == find_allocation_by_ptr(ptr[t])
     IN IF slot >= 0
        THEN /\ allocations' = [allocations EXCEPT ![slot].is_active = FALSE]
             /\ stats' = [stats EXCEPT
                            !.total_deallocations = @ + 1,
                            !.total_bytes_deallocated = @ + allocations[slot].size]
        ELSE UNCHANGED <<allocations, stats>>
  /\ memory_mutex' = 0
  /\ TrackedFreeReturn(t, allocations')
  /\ UNCHANGED <<poolVars, op, size, ret, calls, now, mon_pc, leaks>>

\* tracked_free without line 118: the bytes of the entry are not counted.
TrackedFreeUpdateNoBytes(t) ==
  /\ pc[t] = "tf_update"
  /\ LET slot == find_allocation_by_ptr(ptr[t])
     IN IF slot >= 0
        THEN /\ allocations' = [allocations EXCEPT ![slot].is_active = FALSE]
             /\ stats' = [stats EXCEPT
                            !.total_deallocations = @ + 1,
                            !.current_allocations = @ - 1]
        ELSE UNCHANGED <<allocations, stats>>
  /\ memory_mutex' = 0
  /\ TrackedFreeReturn(t, allocations')
  /\ UNCHANGED <<poolVars, op, size, ret, calls, now, mon_pc, leaks>>

\* Lines 114-128: the entry of the pointer is made inactive, the mutex is
\* given and the memory goes back to the raw allocator.
TrackedFreeUpdate(t) ==
  /\ pc[t] = "tf_update"
  /\ LET slot == find_allocation_by_ptr(ptr[t])
     IN IF slot >= 0
        THEN /\ allocations' = [allocations EXCEPT ![slot].is_active = FALSE]
             /\ stats' = [stats EXCEPT
                            !.total_deallocations = @ + 1,
                            !.current_allocations = @ - 1,
                            !.total_bytes_deallocated = @ + allocations[slot].size]
        ELSE UNCHANGED <<allocations, stats>>
  /\ memory_mutex' = 0
  /\ TrackedFreeReturn(t, allocations')
  /\ UNCHANGED <<poolVars, op, size, ret, calls, now, mon_pc, leaks>>

\* A timed-out take after which tracked_free returns without line 128.
TrackerTakeTimeoutSkipsFree(t) ==
  /\ pc[t] \in {"tm_take", "tf_take"}
  /\ ~MemoryMutexAvailable
  /\ IF pc[t] = "tm_take"
     THEN /\ TrackedMallocReturn(t)
          /\ UNCHANGED <<heap_live, freed_entries>>
     ELSE /\ tptrs' = [tptrs EXCEPT ![t] = @ \ {ptr[t]}]
          /\ ptr' = [ptr EXCEPT ![t] = NULL]
          /\ pc' = [pc EXCEPT ![t] = "idle"]
          /\ UNCHANGED <<heap_live, freed_entries, ret>>
  /\ UNCHANGED <<poolVars, op, size, calls, allocations, stats, memory_mutex,
                 now, mon_pc, leaks>>

\* xSemaphoreTake gives up after 100 ms while the mutex is held: the table
\* is left as it is, tracked_malloc returns its pointer and tracked_free
\* frees the memory.
TrackerTakeTimeout(t) ==
  /\ pc[t] \in {"tm_take", "tf_take"}
  /\ ~MemoryMutexAvailable
  /\ IF pc[t] = "tm_take"
     THEN /\ TrackedMallocReturn(t)
          /\ UNCHANGED <<heap_live, freed_entries>>
     ELSE /\ TrackedFreeReturn(t, allocations)
          /\ UNCHANGED ret
  /\ UNCHANGED <<poolVars, op, size, calls, allocations, stats, memory_mutex,
                 now, mon_pc, leaks>>

TrackerStep(t) ==
  \/ TrackedMallocTake(t)
  \/ TrackedMallocRecord(t)
  \/ TrackedFreeTake(t)
  \/ TrackedFreeUpdate(t)
  \/ TrackerTakeTimeout(t)

(***************************************************************************)
(* memory_monitor_task, lines 340-356: after its delay it calls            *)
(* print_allocation_summary and then detect_memory_leaks.                  *)
(***************************************************************************)
taskVars == <<heap_live, pc, op, size, ptr, ret, calls, tptrs>>

\* (now - timestamp) / 1000, line 221.
AgeMs(slot) == (now - allocations[slot].timestamp) \div US_PER_MS

\* Lines 219-230: the active entries older than the leak age.
LeakSlots == {slot \in Slots : allocations[slot].is_active /\ AgeMs(slot) > LEAK_AGE_MS}

\* Line 343: the delay is over.
MonitorWake ==
  /\ mon_pc = "delay"
  /\ mon_pc' = "sum_take"
  /\ UNCHANGED <<poolVars, taskVars, allocations, stats, memory_mutex, now,
                 leaks, freed_entries>>

\* print_allocation_summary, line 180: the take succeeds, lines 182-204 log.
SummaryTake ==
  /\ mon_pc = "sum_take"
  /\ MemoryMutexAvailable
  /\ memory_mutex' = MONITOR
  /\ mon_pc' = "sum_hold"
  /\ UNCHANGED <<poolVars, taskVars, allocations, stats, now, leaks,
                 freed_entries>>

\* Line 206.
SummaryGive ==
  /\ mon_pc = "sum_hold"
  /\ memory_mutex' = 0
  /\ mon_pc' = "scan_take"
  /\ UNCHANGED <<poolVars, taskVars, allocations, stats, now, leaks,
                 freed_entries>>

\* A leak scan that reclaims what it reports: the entries it finds are made
\* inactive.
ScanTakeReclaims ==
  /\ mon_pc = "scan_take"
  /\ MemoryMutexAvailable
  /\ memory_mutex' = MONITOR
  /\ leaks' = LeakSlots
  /\ allocations' = [slot \in Slots |->
                       IF slot \in LeakSlots
                       THEN [allocations[slot] EXCEPT !.is_active = FALSE]
                       ELSE allocations[slot]]
  /\ mon_pc' = "scan_hold"
  /\ UNCHANGED <<poolVars, taskVars, stats, now, freed_entries>>

\* detect_memory_leaks, lines 211-230: the take succeeds, the clock is read
\* and the table is scanned.
ScanTake ==
  /\ mon_pc = "scan_take"
  /\ MemoryMutexAvailable
  /\ memory_mutex' = MONITOR
  /\ leaks' = LeakSlots
  /\ mon_pc' = "scan_hold"
  /\ UNCHANGED <<poolVars, taskVars, allocations, stats, now, freed_entries>>

\* Line 240.
ScanGive ==
  /\ mon_pc = "scan_hold"
  /\ memory_mutex' = 0
  /\ mon_pc' = "delay"
  /\ UNCHANGED <<poolVars, taskVars, allocations, stats, now, leaks,
                 freed_entries>>

\* Lines 180 and 211: after 1000 ms without the mutex either function
\* returns having done nothing.
MonitorTakeTimeout ==
  /\ mon_pc \in {"sum_take", "scan_take"}
  /\ ~MemoryMutexAvailable
  /\ mon_pc' = IF mon_pc = "sum_take" THEN "scan_take" ELSE "delay"
  /\ UNCHANGED <<poolVars, taskVars, allocations, stats, memory_mutex, now,
                 leaks, freed_entries>>

MonitorStep ==
  \/ MonitorWake
  \/ SummaryTake
  \/ SummaryGive
  \/ ScanTake
  \/ ScanGive
  \/ MonitorTakeTimeout

\* esp_timer_get_time() advances.
Tick ==
  /\ calls < MaxCalls
  /\ calls' = calls + 1
  /\ \E d \in TimeSteps : now' = now + d
  /\ UNCHANGED <<poolVars, heap_live, pc, op, size, ptr, ret, tptrs,
                 allocations, stats, memory_mutex, mon_pc, leaks, freed_entries>>

\* The tasks of the lab: each keeps the pointers tracked_malloc gave it and
\* frees pointers it keeps, MaxCalls calls in all.
NextTracker ==
  \/ \E t \in Tasks :
       \/ /\ calls < MaxCalls
          /\ \E s \in TrackedSizes, h \in HeapPtrs \cup {NULL} :
               TrackedMallocCall(t, s, h)
       \/ /\ calls < MaxCalls
          /\ \E p \in tptrs[t] \cup {NULL} : TrackedFreeCall(t, p)
       \/ TrackerStep(t)
  \/ MonitorStep
  \/ Tick

SpecTracker == Init /\ [][NextTracker]_vars

(***************************************************************************)
(* The tracker with more live allocations than the table has entries.     *)
(* The tasks keep several pointers at a time (ptrs[20] of line 246,       *)
(* pool[5][10] of line 281); here they can keep one more than the table   *)
(* holds, the case of lines 95-97.  One size and no clock: the capacity   *)
(* of the table depends on neither.                                       *)
(***************************************************************************)
\* One address more than the table has entries.
TableHeapPtrs == {1048576 + 8192 * k : k \in 1..(MAX_ALLOCATIONS + 1)}
TableSizes == {64}

NextTable ==
  \/ \E t \in Tasks :
       \/ /\ calls < MaxCalls
          /\ \E s \in TableSizes, h \in TableHeapPtrs \cup {NULL} :
               TrackedMallocCall(t, s, h)
       \/ /\ calls < MaxCalls
          /\ \E p \in tptrs[t] : TrackedFreeCall(t, p)
       \/ TrackerStep(t)
  \/ MonitorStep

SpecTable == Init /\ [][NextTable]_vars

(***************************************************************************)
(* The tracker followed one call further: an allocation, its release, the *)
(* allocation that gets the address again and the release of that one.    *)
(* One size and no clock; MaxCalls + 1 calls in all.                       *)
(***************************************************************************)
NextRelease ==
  \/ \E t \in Tasks :
       \/ /\ calls <= MaxCalls
          /\ \E s \in TableSizes, h \in HeapPtrs \cup {NULL} :
               TrackedMallocCall(t, s, h)
       \/ /\ calls <= MaxCalls
          /\ \E p \in tptrs[t] : TrackedFreeCall(t, p)
       \/ TrackerStep(t)
  \/ MonitorStep

SpecRelease == Init /\ [][NextRelease]_vars

(***************************************************************************)
(* The lab as its tasks are written: each task keeps a bounded number of  *)
(* pointers (ptrs[20], line 246; pool[5][10], line 281; one pbuf, line    *)
(* 318; one buf, line 378), allocates only below that number and frees    *)
(* only what it keeps.  Every take of memory_mutex is waited for until it *)
(* succeeds: no timeout step.                                             *)
(***************************************************************************)
\* The pointer arrays of the four tasks and the table, as configured.
STRESS_PTRS == 20
POOL_SIZES == 5
POOL_PER_SIZE == 10
LARGE_PTRS == 1
PERF_PTRS == 1
LAB_MAX_ALLOCATIONS == 100
LabPointers == STRESS_PTRS + POOL_SIZES * POOL_PER_SIZE + LARGE_PTRS + PERF_PTRS

\* A task that allocates whatever it keeps already.
LabMayAllocateAlways(t) == TRUE

\* Line 252 (n < 20) and the loops of lines 285-291: a task allocates only
\* while it keeps fewer pointers than its array holds.
LabMayAllocate(t) == Cardinality(tptrs[t]) < MaxHold

NextLab ==
  \/ \E t \in Tasks :
       \/ /\ calls < MaxCalls
          /\ LabMayAllocate(t)
          /\ \E s \in TableSizes, h \in TableHeapPtrs \cup {NULL} :
               TrackedMallocCall(t, s, h)
       \/ /\ calls < MaxCalls
          /\ \E p \in tptrs[t] : TrackedFreeCall(t, p)
       \/ TrackedMallocTake(t)
       \/ TrackedMallocRecord(t)
       \/ TrackedFreeTake(t)
       \/ TrackedFreeUpdate(t)
  \/ MonitorWake
  \/ SummaryTake
  \/ SummaryGive
  \/ ScanTake
  \/ ScanGive

SpecLab == Init /\ [][NextLab]_vars

(***************************************************************************)
(* memory_optimization.c: the static buffer allocator.  STATIC_BUFFER_COUNT *)
(* buffers, a used flag for each, and one mutex taken with a 100 ms wait   *)
(* around every read or write of the flags.                                *)
(***************************************************************************)

\* Every variable of the two allocators.
allocVars == <<pools, blocks, mutex, led, heap_live, pc, op, i, size, ptr,
               block, ret, ok, held, released, calls, last_freed, allocations,
               stats, memory_mutex, now, tptrs, mon_pc, leaks, freed_entries>>

\* What the static buffer allocator leaves alone.
sbRest == <<allocVars, cs, mx>>

StaticMutexAlwaysAvailable == TRUE

\* xSemaphoreTake(static_buffer_mutex, ...) succeeds when nobody holds it.
StaticMutexAvailable == static_buffer_mutex = 0

\* The first index whose flag is clear, STATIC_BUFFER_COUNT when the loop of
\* allocate_static_buffer runs to its end.
FirstUnusedBuffer ==
  IF \E k \in Buffers : ~static_buffer_used[k]
    THEN CHOOSE k \in Buffers :
           /\ ~static_buffer_used[k]
           /\ \A j \in Buffers : j < k => static_buffer_used[j]
    ELSE STATIC_BUFFER_COUNT

\* A caller enters allocate_static_buffer().
AllocStaticCall(t) ==
  /\ sb.pc[t] = "idle"
  /\ sb.calls < MaxStaticCalls
  /\ sb' = [sb EXCEPT !.calls = @ + 1,
                      !.pc[t] = "alloc_take",
                      !.ret[t] = NULL]
  /\ UNCHANGED sbRest

\* The take of line 85 succeeds, and the loop reads the flags up to the first
\* clear one.
AllocStaticTake(t) ==
  /\ sb.pc[t] = "alloc_take"
  /\ StaticMutexAvailable
  /\ sb' = [sb EXCEPT !.static_buffer_mutex = t,
                      !.i[t] = FirstUnusedBuffer,
                      !.pc[t] = "alloc_mark"]
  /\ UNCHANGED sbRest

\* Lines 88-97: the flag is set, the counter and the LED follow, the mutex
\* is given and the buffer (or NULL when the loop found none) is returned.
AllocStaticMark(t) ==
  /\ sb.pc[t] = "alloc_mark"
  /\ sb' = IF sb.i[t] < STATIC_BUFFER_COUNT
             THEN [sb EXCEPT !.static_buffer_used[sb.i[t]] = TRUE,
                             !.static_allocations = @ + 1,
                             !.led_static = TRUE,
                             !.ret[t] = BufferAddr(sb.i[t]),
                             !.held[t] = @ \cup {BufferAddr(sb.i[t])},
                             !.static_buffer_mutex = 0,
                             !.pc[t] = "idle"]
             ELSE [sb EXCEPT !.ret[t] = NULL,
                             !.static_buffer_mutex = 0,
                             !.pc[t] = "idle"]
  /\ UNCHANGED sbRest

\* The take of line 85 times out: NULL is returned and nothing was touched.
AllocStaticTimeout(t) ==
  /\ sb.pc[t] = "alloc_take"
  /\ ~StaticMutexAvailable
  /\ sb' = [sb EXCEPT !.ret[t] = NULL, !.pc[t] = "idle"]
  /\ UNCHANGED sbRest

\* A caller enters free_static_buffer(p); line 101 returns at once on NULL.
FreeStaticCall(t, p) ==
  /\ sb.pc[t] = "idle"
  /\ sb.calls < MaxStaticCalls
  /\ sb' = [sb EXCEPT !.calls = @ + 1,
                      !.arg[t] = p,
                      !.pc[t] = IF p = NULL THEN "idle" ELSE "free_take"]
  /\ UNCHANGED sbRest

\* The take of line 102 succeeds, and the loop looks the pointer up among the
\* buffers' addresses.
FreeStaticTake(t) ==
  /\ sb.pc[t] = "free_take"
  /\ StaticMutexAvailable
  /\ sb' = [sb EXCEPT
       !.static_buffer_mutex = t,
       !.i[t] = IF \E k \in Buffers : sb.arg[t] = BufferAddr(k)
                  THEN CHOOSE k \in Buffers : sb.arg[t] = BufferAddr(k)
                  ELSE STATIC_BUFFER_COUNT,
       !.pc[t] = "free_clear"]
  /\ UNCHANGED sbRest

\* The flags after line 105 has cleared the one of the buffer found.
FlagsAfterClear(t) ==
  IF sb.i[t] < STATIC_BUFFER_COUNT
    THEN [static_buffer_used EXCEPT ![sb.i[t]] = FALSE]
    ELSE static_buffer_used

\* Lines 105-113: the flag of the buffer found is cleared, the LED goes off
\* when no flag is left set, the mutex is given.  The caller keeps the pointer
\* no longer.
FreeStaticClear(t) ==
  /\ sb.pc[t] = "free_clear"
  /\ sb' = [sb EXCEPT
       !.static_buffer_used = FlagsAfterClear(t),
       !.led_static = IF \E k \in Buffers : FlagsAfterClear(t)[k]
                        THEN @ ELSE FALSE,
       !.static_buffer_mutex = 0,
       !.held[t] = @ \ {sb.arg[t]},
       !.pc[t] = "idle"]
  /\ UNCHANGED sbRest

\* The take of line 102 times out: the function returns with the flag still
\* set, and the caller has let go of the pointer.
FreeStaticTimeout(t) ==
  /\ sb.pc[t] = "free_take"
  /\ ~StaticMutexAvailable
  /\ sb' = [sb EXCEPT !.held[t] = @ \ {sb.arg[t]}, !.pc[t] = "idle"]
  /\ UNCHANGED sbRest

\* Callers of the static buffer allocator: each frees what it was given, NULL
\* (the result of a failed allocation) or a pointer that is no buffer.
NextStatic ==
  \E t \in Tasks :
    \/ AllocStaticCall(t)
    \/ AllocStaticTake(t)
    \/ AllocStaticMark(t)
    \/ AllocStaticTimeout(t)
    \/ \E p \in sb.held[t] \cup {NULL} \cup ForeignPtrs : FreeStaticCall(t, p)
    \/ FreeStaticTake(t)
    \/ FreeStaticClear(t)
    \/ FreeStaticTimeout(t)

\* A device that runs none of the two allocator programs.
NoAllocators ==
  /\ pools = <<>> /\ blocks = <<>> /\ mutex = <<>> /\ led = <<>>
  /\ heap_live = <<>> /\ pc = <<>> /\ op = <<>> /\ i = <<>> /\ size = <<>>
  /\ ptr = <<>> /\ block = <<>> /\ ret = <<>> /\ ok = <<>> /\ held = <<>>
  /\ released = <<>> /\ calls = <<>> /\ last_freed = <<>>
  /\ allocations = <<>> /\ stats = <<>> /\ memory_mutex = <<>> /\ now = <<>>
  /\ tptrs = <<>> /\ mon_pc = <<>> /\ leaks = <<>> /\ freed_entries = <<>>

\* memory_optimization.c after app_main.
InitStaticProgram == NoAllocators /\ InitStatic /\ cs = <<>> /\ mx = <<>>

SpecStatic == InitStaticProgram /\ [][NextStatic]_vars

(***************************************************************************)
(* The counting-semaphore lab: MAX_RESOURCES resource slots behind a       *)
(* counting semaphore, NUM_PRODUCERS producer tasks and the load generator. *)
(* acquire_resource() and release_resource() run with a count of the       *)
(* semaphore taken and with no other lock, so each of their reads and      *)
(* writes of resources[] and stats is a step of its own.                   *)
(***************************************************************************)

\* What the counting-semaphore lab leaves alone.
csRest == <<allocVars, sb, mx>>

\* producer_task, lines 86-92: a request is counted and the task goes on to
\* take the semaphore.
ProducerRequest(t) ==
  /\ t \in Producers
  /\ cs.pc[t] = "idle"
  /\ cs.rounds < MaxRounds
  /\ cs' = [cs EXCEPT !.rounds = @ + 1,
                      !.stats.total_requests = Inc(@),
                      !.pc[t] = "take"]
  /\ UNCHANGED csRest

\* load_generator_task, line 159: one iteration of the burst begins.
LoadGenIterate(t) ==
  /\ t = LoadGen
  /\ cs.pc[t] = "idle"
  /\ cs.rounds < MaxRounds
  /\ cs' = [cs EXCEPT !.rounds = @ + 1, !.pc[t] = "take"]
  /\ UNCHANGED csRest

\* xSemaphoreTake succeeds (lines 94-98, 160-161): the count goes down, a
\* producer counts the acquisition, and acquire_resource() is entered.
SemTake(t) ==
  /\ cs.pc[t] = "take"
  /\ xCountingSemaphore > 0
  /\ cs' = [cs EXCEPT
       !.xCountingSemaphore = @ - 1,
       !.stats.successful_acquisitions = IF t \in Producers THEN Inc(@) ELSE @,
       !.i[t] = 0,
       !.pc[t] = "scan"]
  /\ UNCHANGED csRest

\* xSemaphoreTake times out with the count at zero (lines 110-113, 167-169).
SemTakeTimeout(t) ==
  /\ cs.pc[t] = "take"
  /\ xCountingSemaphore = 0
  /\ cs' = [cs EXCEPT
       !.stats.failed_acquisitions = IF t \in Producers THEN Inc(@) ELSE @,
       !.pc[t] = "idle"]
  /\ UNCHANGED csRest

\* acquire_resource, lines 48-49 and 61-62: one test of resources[i].in_use.
\* A clear flag leads to line 50, a set one to the next index, and the end of
\* the loop returns -1, after which the caller gives the semaphore back
\* (lines 106-108, 162-166).
AcquireScan(t) ==
  /\ cs.pc[t] = "scan"
  /\ cs' = IF ~resources[cs.i[t]].in_use
             THEN [cs EXCEPT !.pc[t] = "set"]
             ELSE IF cs.i[t] + 1 < MAX_RESOURCES
               THEN [cs EXCEPT !.i[t] = @ + 1]
               ELSE [cs EXCEPT !.res[t] = -1, !.i[t] = 0, !.pc[t] = "give"]
  /\ UNCHANGED csRest

\* acquire_resource, lines 50-57: the slot is marked, named and lit.
AcquireSet(t) ==
  /\ cs.pc[t] = "set"
  /\ cs' = [cs EXCEPT
       !.resources[cs.i[t]] =
          [in_use |-> TRUE, current_user |-> t, usage_count |-> Inc(@.usage_count)],
       !.led_resource[cs.i[t]] = TRUE,
       !.pc[t] = "inc_load"]
  /\ UNCHANGED csRest

\* acquire_resource, line 58: stats.resources_in_use is read ...
AcquireCountLoad(t) ==
  /\ cs.pc[t] = "inc_load"
  /\ cs' = [cs EXCEPT !.tmp[t] = sem_stats.resources_in_use,
                      !.pc[t] = "inc_store"]
  /\ UNCHANGED csRest

\* ... and written back one higher; line 59 returns the index, which ends
\* the life of the loop variable, and the task uses the resource (lines
\* 100-102, 163).
AcquireCountStore(t) ==
  /\ cs.pc[t] = "inc_store"
  /\ cs' = [cs EXCEPT !.stats.resources_in_use = Inc(cs.tmp[t]),
                      !.res[t] = cs.i[t],
                      !.i[t] = 0,
                      !.tmp[t] = 0,
                      !.pc[t] = "using"]
  /\ UNCHANGED csRest

\* release_resource, lines 66-74: the slot is cleared, unnamed and unlit.
ReleaseClear(t) ==
  /\ cs.pc[t] = "using"
  /\ cs.res[t] >= 0 /\ cs.res[t] < MAX_RESOURCES
  /\ cs' = [cs EXCEPT
       !.resources[cs.res[t]] =
          [in_use |-> FALSE, current_user |-> NO_USER, usage_count |-> @.usage_count],
       !.led_resource[cs.res[t]] = FALSE,
       !.pc[t] = "dec_load"]
  /\ UNCHANGED csRest

\* release_resource, line 75: stats.resources_in_use is read ...
ReleaseCountLoad(t) ==
  /\ cs.pc[t] = "dec_load"
  /\ cs' = [cs EXCEPT !.tmp[t] = sem_stats.resources_in_use,
                      !.pc[t] = "dec_store"]
  /\ UNCHANGED csRest

\* ... and written back one lower.
ReleaseCountStore(t) ==
  /\ cs.pc[t] = "dec_store"
  /\ cs' = [cs EXCEPT !.stats.resources_in_use = Dec(cs.tmp[t]),
                      !.tmp[t] = 0,
                      !.pc[t] = "give"]
  /\ UNCHANGED csRest

SemGiveLost(t) ==
  /\ cs.pc[t] = "give"
  /\ cs' = [cs EXCEPT !.res[t] = 0, !.pc[t] = "idle"]
  /\ UNCHANGED csRest

\* xSemaphoreGive of lines 104, 108 and 166: the count goes back up, and res
\* goes out of scope.
SemGive(t) ==
  /\ cs.pc[t] = "give"
  /\ cs' = [cs EXCEPT !.xCountingSemaphore = @ + 1,
                      !.res[t] = 0,
                      !.pc[t] = "idle"]
  /\ UNCHANGED csRest

\* The producers and the load generator, preempted between any two steps.
NextSem ==
  \E t \in SemTasks :
    \/ ProducerRequest(t)
    \/ LoadGenIterate(t)
    \/ SemTake(t)
    \/ SemTakeTimeout(t)
    \/ AcquireScan(t)
    \/ AcquireSet(t)
    \/ AcquireCountLoad(t)
    \/ AcquireCountStore(t)
    \/ ReleaseClear(t)
    \/ ReleaseCountLoad(t)
    \/ ReleaseCountStore(t)
    \/ SemGive(t)

\* The counting-semaphore lab after app_main.
InitSemProgram == NoAllocators /\ InitSem /\ sb = <<>> /\ mx = <<>>

SpecSem == InitSemProgram /\ [][NextSem]_vars

(***************************************************************************)
(* The mutex lab: three workers update shared_data inside xMutex, field by *)
(* field; the monitor reads shared_data and recomputes the checksum        *)
(* without taking xMutex.                                                  *)
(***************************************************************************)

\* What the mutex lab leaves alone.
mxRest == <<allocVars, sb, cs>>

\* A worker calls access_shared_resource() (lines 88, 96, 104).
AccessRequest(t) ==
  /\ mx.pc[t] = "idle"
  /\ mx.rounds < MaxAccesses
  /\ mx' = [mx EXCEPT !.rounds = @ + 1, !.pc[t] = "take"]
  /\ UNCHANGED mxRest

\* Lines 48-64: the mutex is taken, the access counted, the LEDs lit; the
\* fields are copied and the checksum recomputed from the copies, and a
\* mismatch after the first access counts as corruption.
AccessTake(t) ==
  /\ mx.pc[t] = "take"
  /\ xMutex = 0
  /\ mx' = [mx EXCEPT
       !.xMutex = t,
       !.led_task[t] = TRUE,
       !.led_critical = TRUE,
       !.temp_counter[t] = shared_data.counter,
       !.stats.successful_access = Inc(@),
       !.stats.corruption_detected =
          IF /\ calculate_checksum(shared_data.shared_buffer, shared_data.counter)
                  # shared_data.checksum
             /\ shared_data.access_count > 0
            THEN Inc(@) ELSE @,
       !.pc[t] = "counter"]
  /\ UNCHANGED mxRest

\* Lines 79-82: the take times out while another worker has the mutex.
AccessTimeout(t) ==
  /\ mx.pc[t] = "take"
  /\ xMutex # 0
  /\ mx' = [mx EXCEPT !.stats.failed_access = Inc(@), !.pc[t] = "idle"]
  /\ UNCHANGED mxRest

\* Line 66.
WriteCounter(t) ==
  /\ mx.pc[t] = "counter"
  /\ mx' = [mx EXCEPT !.shared_data.counter = Inc(temp_counter[t]),
                      !.pc[t] = "buffer"]
  /\ UNCHANGED mxRest

\* Lines 67-68.
WriteBuffer(t) ==
  /\ mx.pc[t] = "buffer"
  /\ mx' = [mx EXCEPT
       !.shared_data.shared_buffer = ModifiedText(t, shared_data.counter),
       !.pc[t] = "checksum"]
  /\ UNCHANGED mxRest

\* Line 69.
WriteChecksum(t) ==
  /\ mx.pc[t] = "checksum"
  /\ mx' = [mx EXCEPT
       !.shared_data.checksum =
          calculate_checksum(shared_data.shared_buffer, shared_data.counter),
       !.pc[t] = "count"]
  /\ UNCHANGED mxRest

\* Line 70.
WriteAccessCount(t) ==
  /\ mx.pc[t] = "count"
  /\ mx' = [mx EXCEPT !.shared_data.access_count = Inc(@), !.pc[t] = "give"]
  /\ UNCHANGED mxRest

\* Lines 74-78: the LEDs go off and the mutex is given.
AccessGive(t) ==
  /\ mx.pc[t] = "give"
  /\ mx' = [mx EXCEPT !.led_task[t] = FALSE,
                      !.led_critical = FALSE,
                      !.xMutex = 0,
                      !.temp_counter[t] = 0,
                      !.pc[t] = "idle"]
  /\ UNCHANGED mxRest

\* monitor_task, lines 112-118: the delay ends and the counter is read as
\* the second argument of calculate_checksum.
MutexMonitorWake ==
  /\ mx.mon_pc = "idle"
  /\ mx.rounds < MaxAccesses
  /\ mx' = [mx EXCEPT !.rounds = @ + 1,
                      !.mon_counter = shared_data.counter,
                      !.mon_pc = "sum"]
  /\ UNCHANGED mxRest

\* Line 118: calculate_checksum walks shared_buffer.
MutexMonitorSum ==
  /\ mx.mon_pc = "sum"
  /\ mx' = [mx EXCEPT
       !.mon_calc = calculate_checksum(shared_data.shared_buffer, mx.mon_counter),
       !.mon_pc = "compare"]
  /\ UNCHANGED mxRest

\* Lines 119-122: calc is compared with the checksum stored now.
MutexMonitorCompare ==
  /\ mx.mon_pc = "compare"
  /\ mx' = [mx EXCEPT
       !.stats.corruption_detected =
          IF mx.mon_calc # shared_data.checksum /\ shared_data.access_count > 0
            THEN Inc(@) ELSE @,
       !.mon_counter = 0,
       !.mon_calc = 0,
       !.mon_pc = "idle"]
  /\ UNCHANGED mxRest

NextMutexLab ==
  \/ \E t \in Workers :
       \/ AccessRequest(t)
       \/ AccessTake(t)
       \/ AccessTimeout(t)
       \/ WriteCounter(t)
       \/ WriteBuffer(t)
       \/ WriteChecksum(t)
       \/ WriteAccessCount(t)
       \/ AccessGive(t)
  \/ MutexMonitorWake
  \/ MutexMonitorSum
  \/ MutexMonitorCompare

\* The mutex lab after app_main.
InitMutexProgram == NoAllocators /\ InitMutexLab /\ sb = <<>> /\ cs = <<>>

SpecMutexLab == InitMutexProgram /\ [][NextMutexLab]_vars

(***************************************************************************)
(* Tasks that use both allocators: the dispatcher of the pools and the     *)
(* tracked allocator, over one raw heap.                                   *)
(***************************************************************************)

\* One request served by a pool and one past every class; one tracked size.
AllSizes == {48, 4081}
AllTrackedSizes == {64}

NextAll ==
  \/ \E t \in Tasks :
       \/ \E s \in AllSizes : SmartMallocCall(t, s)
       \/ \E p \in held[t] \cup {NULL} : SmartFreeCall(t, p)
       \/ SmartMallocHeap(t)
       \/ SmartFreeHeap(t)
       \/ PoolStep(t)
       \/ /\ calls < MaxCalls
          /\ \E s \in AllTrackedSizes, h \in HeapPtrs \cup {NULL} :
               TrackedMallocCall(t, s, h)
       \/ /\ calls < MaxCalls
          /\ \E p \in tptrs[t] : TrackedFreeCall(t, p)
       \/ TrackerStep(t)
  \/ MonitorStep

SpecAll == Init /\ [][NextAll]_vars

(***************************************************************************)
(* The free list as a verifier holding the pool mutex walks it: from the   *)
(* head along next, with one step more than there are headers.             *)
(***************************************************************************)
RECURSIVE Walk(_, _)
Walk(a, fuel) ==
  IF a = NULL \/ fuel = 0 THEN <<>>
  ELSE <<a>> \o Walk(blocks[a].next, fuel - 1)

NumHeaders == Cardinality(Headers)
FreeListWalk(idx) == Walk(pools[idx].free_list, NumHeaders + 1)
FreeListSet(idx) == LET w == FreeListWalk(idx) IN {w[k] : k \in 1..Len(w)}
PoolOfHeader(b) == CHOOSE idx \in PoolIdx : b \in PoolHeaders(idx)

(***************************************************************************)
(* C1.  For every sequence of pool_malloc / pool_free calls on pool        *)
(* blocks, in every reachable state 0 <= allocated_blocks <= block_count   *)
(* for every pool.                                                         *)
(***************************************************************************)
C1_AllocatedWithinBlockCount ==
  \A idx \in PoolIdx :
    /\ pools[idx].allocated_blocks >= 0
    /\ pools[idx].allocated_blocks <= pools[idx].block_count

\* A pool filled up to block_count on which one more allocation was tried.
C1_Witness ==
  \E idx \in PoolIdx :
    /\ pools[idx].allocated_blocks = pools[idx].block_count
    /\ pools[idx].allocation_failures = 1
    /\ \A t \in Tasks : pc[t] = "idle"

(***************************************************************************)
(* C2.  In every reachable state a block's magic is ALLOCATED if and only  *)
(* if it is not reachable from its pool's free_list head: every block is   *)
(* either on the free list tagged FREE or off it tagged ALLOCATED.         *)
(***************************************************************************)
C2_MagicIffOffFreeList ==
  \A idx \in PoolIdx :
    LET onList == FreeListSet(idx) IN
      \A b \in PoolHeaders(idx) :
        /\ blocks[b].magic \in {POOL_MAGIC_FREE, POOL_MAGIC_ALLOC}
        /\ blocks[b].magic = POOL_MAGIC_ALLOC <=> b \notin onList
        /\ blocks[b].magic = POOL_MAGIC_FREE <=> b \in onList

\* One pool with a block handed out and a block released back.
C2_Witness ==
  \E idx \in PoolIdx : \E a, b \in PoolHeaders(idx) :
    /\ blocks[a].magic = POOL_MAGIC_ALLOC
    /\ a \notin FreeListSet(idx)
    /\ b \in released
    /\ b \in FreeListSet(idx)

(***************************************************************************)
(* C3.  With several tasks interleaving pool_malloc and pool_free (double  *)
(* frees and frees into the wrong pool included), whenever a pool's mutex  *)
(* is free for a verifier to take, the pool's free list is acyclic, holds  *)
(* no block twice and has exactly block_count - allocated_blocks entries.  *)
(***************************************************************************)
C3_FreeListIntact ==
  \A idx \in PoolIdx :
    mutex[idx] = 0 =>
      LET w == FreeListWalk(idx) IN
        /\ Len(w) <= NumHeaders
        /\ \A j, k \in 1..Len(w) : j # k => w[j] # w[k]
        /\ Len(w) = pools[idx].block_count - pools[idx].allocated_blocks

\* A pool observed with its mutex free after an allocation, a release and a
\* rejected free, both tasks having called into it.
C3_Witness ==
  \E idx \in PoolIdx : \E t, u \in Tasks :
    /\ t # u
    /\ mutex[idx] = 0
    /\ pools[idx].total_allocations >= 1
    /\ pools[idx].total_deallocations >= 1
    /\ led.error
    /\ pc[t] = "idle" /\ op[t] = "pool_free"
    /\ pc[u] = "idle" /\ op[u] \in {"pool_malloc", "pool_free"}

(***************************************************************************)
(* C4.  Calling pool_free twice on the same pointer with no allocation in  *)
(* between returns success the first time and reports an error (false)     *)
(* the second time.                                                        *)
(***************************************************************************)
C4_DoubleFreeReported ==
  [][\A t \in Tasks :
       /\ (pc[t] = "free_push" /\ pc'[t] = "idle") => ok'[t] = TRUE
       /\ (pc[t] = "free_err" /\ pc'[t] = "idle" /\ block[t] \in released)
            => ok'[t] = FALSE]_vars

(***************************************************************************)
(* C5.  A pool_free whose block fails validation (magic not ALLOCATED, or  *)
(* pool_id not the pool's) leaves free_list, every block header and the    *)
(* pool's counters unchanged.                                              *)
(***************************************************************************)
HeaderInvalid(idx, b) ==
  \/ blocks[b].magic # POOL_MAGIC_ALLOC
  \/ blocks[b].pool_id # pools[idx].pool_id

C5_RejectedFreeChangesNothing ==
  [][\A t \in Tasks :
       (/\ pc[t] \in {"free_push", "free_err"}
        /\ pc'[t] # pc[t]
        /\ HeaderInvalid(i[t], block[t]))
         => (pools' = pools /\ blocks' = blocks)]_vars

\* A double free has just been rejected: the task is back from pool_free,
\* the error LED is lit, and the pool counts the one release only.
C5_Witness ==
  \E t \in Tasks : \E idx \in PoolIdx : \E b \in PoolHeaders(idx) :
    /\ pc[t] = "idle" /\ op[t] = "pool_free" /\ ok[t] = TRUE
    /\ led.error
    /\ b \in released
    /\ pools[idx].total_allocations = 1
    /\ pools[idx].total_deallocations = 1
    /\ pools[idx].allocated_blocks = 0
    /\ calls = 3

\* The smallest size class whose block_size >= size + overhead, read off the
\* configuration table; POOL_COUNT when there is none.
SmallestClass(s) ==
  IF \E idx \in PoolIdx : pool_configs[idx].block_size >= s + SMART_OVERHEAD
  THEN CHOOSE idx \in PoolIdx :
         /\ pool_configs[idx].block_size >= s + SMART_OVERHEAD
         /\ \A n \in PoolIdx :
              pool_configs[n].block_size >= s + SMART_OVERHEAD => idx <= n
  ELSE POOL_COUNT

(***************************************************************************)
(* C6.  smart_pool_free of a pointer that smart_pool_malloc served from    *)
(* pool i returns the block to pool i, for every size class: when the call *)
(* returns the block is tagged FREE at the head of pool i's free list and  *)
(* pool i's allocated_blocks is one lower.                                 *)
(***************************************************************************)
C6_SmartFreeReturnsBlockToItsPool ==
  [][\A t \in Tasks :
       (/\ op[t] = "smart_free"
        /\ ptr[t] \in PoolPtrs
        /\ ptr[t] \in held[t]
        /\ pc[t] \in {"free_push", "free_err"}
        /\ pc'[t] = "idle")
         => LET b   == HeaderOf(ptr[t])
                own == PoolOfHeader(b)
            IN /\ blocks'[b].magic = POOL_MAGIC_FREE
               /\ pools'[own].free_list = b
               /\ pools'[own].allocated_blocks = pools[own].allocated_blocks - 1]_vars

(***************************************************************************)
(* C7.  smart_pool_free of a pointer obtained from the general-purpose     *)
(* allocator, which no pool claims, reaches heap_caps_free: when the call  *)
(* returns the pointer has been freed there.                               *)
(***************************************************************************)
C7_HeapPointerReachesHeapFree ==
  [][\A t \in Tasks :
       (/\ op[t] = "smart_free"
        /\ ptr[t] \in heap_live
        /\ pc[t] \in {"free_err", "sf_heap"}
        /\ pc'[t] = "idle")
         => ptr[t] \notin heap_live']_vars

C9_ServedBySmallestFittingClass ==
  [][\A t \in Tasks :
       /\ (pc[t] = "idle" /\ pc'[t] # "idle" /\ op'[t] = "smart_malloc")
            => /\ i'[t] = SmallestClass(size'[t])
               /\ pools' = pools
               /\ blocks' = blocks
       /\ (/\ op[t] = "smart_malloc"
           /\ i[t] = SmallestClass(size[t])
           /\ pc[t] = "take"
           /\ mutex'[i[t]] = t
           /\ pools[i[t]].free_list # NULL)
            => pc'[t] = "malloc_pop" /\ pools' = pools /\ blocks' = blocks
       /\ (/\ op[t] = "smart_malloc"
           /\ i[t] = SmallestClass(size[t])
           /\ pc[t] = "malloc_pop"
           /\ pc'[t] # "malloc_pop")
            => /\ pc'[t] = "idle"
               /\ ret'[t] = PtrOf(pools[i[t]].free_list)
               /\ ret'[t] \in held'[t]
               /\ pools'[i[t]].allocated_blocks = Inc(pools[i[t]].allocated_blocks)
               /\ pools'[i[t]].free_list = blocks[pools[i[t]].free_list].next
               /\ \A j \in PoolIdx : j # i[t] => pools'[j] = pools[j]]_vars

\* 200 bytes served by the 256-byte pool, every other pool as initialised.
C9_Witness ==
  \E t \in Tasks :
    /\ pc[t] = "idle" /\ op[t] = "smart_malloc" /\ size[t] = 200
    /\ HeaderOf(ret[t]) \in PoolHeaders(1)
    /\ pools[1].allocated_blocks = 1
    /\ \A j \in PoolIdx \ {1} : pools[j] = InitPool(j)

C11_FallbackIsTracked ==
  [][\A t \in Tasks :
       (/\ op[t] = "smart_malloc"
        /\ pc[t] = "sm_heap"
        /\ pc'[t] = "idle"
        /\ ret'[t] # NULL
        /\ find_free_allocation_slot >= 0)
         => \E slot \in Slots :
              /\ allocations'[slot].is_active
              /\ allocations'[slot].ptr = ret'[t]]_vars

(***************************************************************************)
(* C12.  On a pool with block_count = K, after K successful allocations    *)
(* and no release, the next pool_malloc that examines the pool finds it    *)
(* exhausted and returns NULL; allocation_failures rises by one (to 1 the  *)
(* first time) and nothing else of the pool, of any other pool or of any   *)
(* block header changes: the pool never grows.                             *)
(***************************************************************************)
C12_ExhaustedPoolFails ==
  [][\A t \in Tasks :
       /\ (/\ op[t] = "pool_malloc"
           /\ pc[t] = "take"
           /\ mutex'[i[t]] = t
           /\ pools[i[t]].total_allocations = pools[i[t]].block_count
           /\ pools[i[t]].total_deallocations = 0)
            => pc'[t] = "malloc_fail"
       /\ (/\ op[t] = "pool_malloc"
           /\ pc[t] = "malloc_fail"
           /\ pc'[t] # "malloc_fail")
            => /\ pc'[t] = "idle"
               /\ ret'[t] = NULL
               /\ pools' = [pools EXCEPT ![i[t]].allocation_failures = @ + 1]
               /\ pools[i[t]].allocation_failures = 0
                    => pools'[i[t]].allocation_failures = 1
               /\ pools'[i[t]].block_count = pool_configs[i[t]].block_count
               /\ blocks' = blocks]_vars

\* The call after K allocations has come back with NULL.
C12_Witness ==
  \E t \in Tasks : \E idx \in PoolIdx :
    /\ pc[t] = "idle" /\ op[t] = "pool_malloc" /\ ret[t] = NULL
    /\ pools[idx].total_allocations = pools[idx].block_count
    /\ pools[idx].total_deallocations = 0
    /\ pools[idx].allocation_failures = 1
    /\ pools[idx].free_list = NULL

(***************************************************************************)
(* C13.  In every reachable state of a pool peak_usage >= allocated_blocks,*)
(* and peak_usage never decreases across any operation.                    *)
(***************************************************************************)
C13_PeakUsageCoversAllocated ==
  [][\A idx \in PoolIdx :
       /\ pools'[idx].peak_usage >= pools'[idx].allocated_blocks
       /\ pools'[idx].peak_usage >= pools[idx].peak_usage]_vars

(***************************************************************************)
(* C14.  In every reachable state of a pool                                *)
(* allocated_blocks = total_allocations - total_deallocations.             *)
(***************************************************************************)
C14_AllocatedIsAllocationsMinusDeallocations ==
  \A idx \in PoolIdx :
    pools[idx].allocated_blocks =
      pools[idx].total_allocations - pools[idx].total_deallocations

\* Two allocations and one release of one pool, every call over.
C14_Witness ==
  \E idx \in PoolIdx :
    /\ pools[idx].total_allocations = 2
    /\ pools[idx].total_deallocations = 1
    /\ pools[idx].allocated_blocks = 1
    /\ \A t \in Tasks : pc[t] = "idle"

(***************************************************************************)
(* C15.  LIFO round trip: the block released last to a pool is the next    *)
(* one pool_malloc hands out from it, so allocating, releasing and         *)
(* allocating again with nothing in between returns the first address, and *)
(* the block's magic is ALLOCATED again.                                   *)
(***************************************************************************)
C15_LifoRoundTrip ==
  [][\A t \in Tasks :
       (/\ op[t] = "pool_malloc"
        /\ pc[t] = "malloc_pop"
        /\ pc'[t] # "malloc_pop"
        /\ last_freed[i[t]] # NULL)
         => /\ ret'[t] = PtrOf(last_freed[i[t]])
            /\ blocks'[last_freed[i[t]]].magic = POOL_MAGIC_ALLOC]_vars

\* The head handed out first was released and has been handed out again.
C15_Witness ==
  \E t \in Tasks : \E idx \in PoolIdx :
    /\ pc[t] = "idle" /\ op[t] = "pool_malloc"
    /\ ret[t] = PtrOf(BlockAddr(idx, pool_configs[idx].block_count - 1))
    /\ blocks[HeaderOf(ret[t])].magic = POOL_MAGIC_ALLOC
    /\ pools[idx].total_allocations = 2
    /\ pools[idx].total_deallocations = 1
    /\ last_freed[idx] = NULL
    /\ calls = 3

(***************************************************************************)
(* C16.  A pool operation that does not obtain the pool mutex within its   *)
(* bounded wait reports an error to its caller: pool_malloc returns NULL   *)
(* and pool_free does not return success.                                  *)
(***************************************************************************)
C16_TimeoutReportedAsError ==
  [][\A t \in Tasks :
       (/\ op[t] \in {"pool_malloc", "pool_free"}
        /\ pc[t] = "take"
        /\ mutex[i[t]] # 0
        /\ pc'[t] = "idle")
         => IF op[t] = "pool_malloc" THEN ret'[t] = NULL ELSE ok'[t] = FALSE]_vars

(***************************************************************************)
(* C17.  Every call of pool_malloc or pool_free eventually returns, also   *)
(* when no other task ever releases a block: an allocation on an exhausted *)
(* pool fails once it holds the mutex, and the one wait of either          *)
(* operation is the bounded take.                                          *)
(***************************************************************************)
C17_EveryCallReturns ==
  \A t \in Tasks : (pc[t] # "idle") ~> (pc[t] = "idle")

\* A task holds the mutex of an exhausted pool while every other task is
\* idle and keeps what it was given.
C17_Witness ==
  \E t \in Tasks :
    /\ pc[t] = "malloc_fail" /\ op[t] = "pool_malloc"
    /\ mutex[i[t]] = t
    /\ pools[i[t]].free_list = NULL
    /\ pools[i[t]].allocated_blocks = pools[i[t]].block_count
    /\ \A u \in Tasks \ {t} : pc[u] = "idle"

(***************************************************************************)
(* C18.  No task ever holds more than one allocator lock (one pool mutex,  *)
(* or the tracker mutex), and no interleaving of smart_pool_malloc,        *)
(* smart_pool_free, tracked_malloc, tracked_free and the monitor reaches a *)
(* deadlock: a task inside a call can always take its next step.           *)
(***************************************************************************)
LocksHeld(t) ==
  Cardinality({idx \in PoolIdx : mutex[idx] = t})
    + (IF memory_mutex = t THEN 1 ELSE 0)

TaskStep(t) ==
  PoolStep(t) \/ SmartMallocHeap(t) \/ SmartFreeHeap(t) \/ TrackerStep(t)

C18_OneLockNoDeadlock ==
  /\ \A t \in Tasks \cup {MONITOR} : LocksHeld(t) <= 1
  /\ \A t \in Tasks : pc[t] # "idle" => ENABLED TaskStep(t)
  /\ ENABLED MonitorStep

\* One task holds a pool mutex, another the tracker mutex, and the monitor
\* waits for the tracker mutex.
C18_Witness ==
  \E t, u \in Tasks :
    /\ t # u
    /\ op[t] = "smart_malloc" /\ pc[t] = "malloc_pop" /\ mutex[i[t]] = t
    /\ op[u] = "tracked_malloc" /\ memory_mutex = u
    /\ mon_pc \in {"sum_take", "scan_take"}

(***************************************************************************)
(* C19.  In every reachable state of the tracker no two active entries     *)
(* hold the same pointer, for all interleavings of tracked_malloc and      *)
(* tracked_free, runs in which a bounded take times out included.          *)
(***************************************************************************)
C19_ActivePointersDistinct ==
  \A a, b \in Slots :
    (a # b /\ allocations[a].is_active /\ allocations[b].is_active)
      => allocations[a].ptr # allocations[b].ptr

(***************************************************************************)
(* C20.  Leak scan: an active entry recorded at time T and never released  *)
(* is reported by a scan that reads the clock at T + 30 s + 1 ms or later; *)
(* an entry whose pointer tracked_free has been called on is reported by   *)
(* no later scan.                                                          *)
(***************************************************************************)
C20_LeakScanReportsUnreleasedOnly ==
  [][(mon_pc = "scan_take" /\ mon_pc' = "scan_hold")
       => \A slot \in Slots :
            /\ (/\ allocations[slot].is_active
                /\ slot \notin freed_entries
                /\ now >= allocations[slot].timestamp
                            + (LEAK_AGE_MS + 1) * US_PER_MS)
                 => slot \in leaks'
            /\ slot \in freed_entries => slot \notin leaks']_vars

(***************************************************************************)
(* Claims about the allocation tracker, continued.                         *)
(***************************************************************************)
\* Every entry of the table is active.
TableFull == \A slot \in Slots : allocations[slot].is_active

\* A step that ends a call of tracked_malloc by task t.
TrackedMallocEnds(t) ==
  /\ op[t] = "tracked_malloc"
  /\ pc[t] \in {"tm_take", "tm_record"}
  /\ pc'[t] = "idle"

\* C21: when every entry of the table is active, a tracked_malloc whose raw
\* allocation gave a pointer returns that pointer, the memory stays
\* allocated, and neither the table nor any counter of stats changes.
C21_FullTableStillAllocates ==
  [][\A t \in Tasks :
       (TrackedMallocEnds(t) /\ TableFull /\ ptr[t] # NULL)
         => /\ ret'[t] = ptr[t]
            /\ ptr[t] \in heap_live'
            /\ allocations' = allocations
            /\ stats' = stats]_vars

\* A call holds the mutex with a pointer from the raw allocator and finds
\* every entry active.
C21_Witness ==
  \E t \in Tasks :
    /\ pc[t] = "tm_record"
    /\ memory_mutex = t
    /\ ptr[t] # NULL
    /\ TableFull
    /\ find_free_allocation_slot = -1

\* A step that ends a call of tracked_free by task t.
TrackedFreeEnds(t) ==
  /\ op[t] = "tracked_free"
  /\ pc[t] \in {"tf_take", "tf_update"}
  /\ pc'[t] = "idle"

\* C22: a tracked_free of a pointer with no active entry changes no entry
\* and no counter; a tracked_free that finds the entry of its pointer counts
\* it once (current_allocations - 1, total_deallocations + 1,
\* total_bytes_deallocated + size) and leaves no active entry with that
\* pointer, so that a second tracked_free of the pointer counts nothing.
C22_ReleaseCountsOnce ==
  [][\A t \in Tasks :
       TrackedFreeEnds(t) =>
         LET slot == find_allocation_by_ptr(ptr[t])
         IN /\ slot = -1 => (allocations' = allocations /\ stats' = stats)
            /\ (slot >= 0 /\ pc[t] = "tf_update") =>
                 /\ stats'.current_allocations = stats.current_allocations - 1
                 /\ stats'.total_deallocations = stats.total_deallocations + 1
                 /\ stats'.total_bytes_deallocated =
                      stats.total_bytes_deallocated + allocations[slot].size
                 /\ \A n \in Slots :
                      ~(allocations'[n].is_active /\ allocations'[n].ptr = ptr[t])]_vars

\* The entries with is_active set.
ActiveSlots == {slot \in Slots : allocations[slot].is_active}

\* C23: in every state current_allocations is the number of active entries,
\* is total_allocations - total_deallocations, and lies in
\* 0..MAX_ALLOCATIONS.
C23_CurrentIsActiveCount ==
  /\ stats.current_allocations = Cardinality(ActiveSlots)
  /\ stats.current_allocations = stats.total_allocations - stats.total_deallocations
  /\ stats.current_allocations \in 0..MAX_ALLOCATIONS

\* A release has been counted and an entry is active: the counters have
\* gone up and down.
C23_Witness ==
  /\ stats.total_deallocations >= 1
  /\ stats.current_allocations >= 1
  /\ ActiveSlots # {}

\* total_bytes_allocated - total_bytes_deallocated, the current_usage of
\* line 91.
CurrentUsage == stats.total_bytes_allocated - stats.total_bytes_deallocated

\* C24: in every state peak_usage is at least total_bytes_allocated -
\* total_bytes_deallocated, and no step makes peak_usage smaller.
C24_PeakCoversUsageAndNeverDrops ==
  /\ [](stats.peak_usage >= CurrentUsage)
  /\ [][stats'.peak_usage >= stats.peak_usage]_vars

\* After a large allocation was released a smaller one is recorded: the
\* peak stays above the bytes in use.
C24_Witness ==
  /\ CurrentUsage > 0
  /\ stats.peak_usage > CurrentUsage
  /\ stats.total_bytes_deallocated > 0

\* Task t is inside tracked_malloc, inside tracked_free.
InTrackedMalloc(t) == pc[t] \in {"tm_take", "tm_record"}
InTrackedFree(t) == pc[t] \in {"tf_take", "tf_update"}

\* C25: the tracker neither blocks nor fails the call it shadows.  A task
\* inside tracked_malloc or tracked_free always has a step to take; the
\* pointer of the raw allocator stays as it is and stays allocated until
\* the call ends; tracked_malloc returns it; tracked_free of a pointer that
\* is not NULL hands it to the raw free once, at the end of the call, with
\* the entry found or not, the table full or not, the take timed out or
\* not.
C25_TrackerShadowsRawCalls ==
  /\ [](\A t \in Tasks : pc[t] # "idle" => ENABLED TrackerStep(t))
  /\ [][\A t \in Tasks :
          /\ (InTrackedMalloc(t) /\ InTrackedMalloc(t)')
               => /\ ptr'[t] = ptr[t]
                  /\ ptr[t] # NULL => ptr[t] \in heap_live'
          /\ TrackedMallocEnds(t)
               => /\ ret'[t] = ptr[t]
                  /\ ptr[t] # NULL => (ptr[t] \in heap_live' /\ ptr[t] \in tptrs'[t])
          /\ (InTrackedFree(t) /\ InTrackedFree(t)')
               => /\ ptr'[t] = ptr[t]
                  /\ ptr[t] \in heap_live'
          /\ TrackedFreeEnds(t)
               => /\ ptr[t] # NULL
                  /\ ptr[t] \in heap_live
                  /\ heap_live' = heap_live \ {ptr[t]}]_vars

\* A tracked_free whose take timed out has returned: the entry of its
\* pointer is still active and the memory is back in the raw heap.
C25_Witness ==
  \E t \in Tasks, slot \in freed_entries :
    /\ op[t] = "tracked_free"
    /\ pc[t] = "idle"
    /\ allocations[slot].is_active
    /\ allocations[slot].ptr \notin heap_live
    /\ stats.total_deallocations = 0

\* C26: print_allocation_summary and detect_memory_leaks only read the
\* tracker.  No step of either function changes an entry of the table or a
\* counter of stats, and nothing changes them between the take and the give
\* of either function, so they are the same before and after the call.
C26_SummaryAndScanReadOnly ==
  [][(mon_pc' # mon_pc \/ memory_mutex = MONITOR)
       => (allocations' = allocations /\ stats' = stats)]_vars

\* detect_memory_leaks holds the mutex and has reported an entry.
C26_Witness ==
  /\ mon_pc = "scan_hold"
  /\ memory_mutex = MONITOR
  /\ leaks # {}
  /\ \A slot \in leaks : allocations[slot].is_active

(***************************************************************************)
(* Claims about the pools, continued.                                      *)
(***************************************************************************)
\* The slots of pool idx from slot n down to slot 0.
SlotsDownFrom(idx, n) == [k \in 1..(n + 1) |-> BlockAddr(idx, n + 1 - k)]

\* C27: after init_memory_pool with block_count = N every block is tagged
\* FREE with the pool_id of its pool, the free list holds the N blocks once
\* each, slot N-1 at the head and slot 0 at the tail, and the counters are
\* 0; as long as nothing was released the k-th allocation returns slot N-k,
\* the free list being the slots below it, so N allocations return N
\* different addresses, slot 0 last.
C27_InitAndAllocationOrder ==
  /\ [](calls = 0 =>
          \A idx \in PoolIdx :
            /\ \A b \in PoolHeaders(idx) :
                 blocks[b].magic = POOL_MAGIC_FREE /\ blocks[b].pool_id = pools[idx].pool_id
            /\ pools[idx].pool_id = idx + 1
            /\ FreeListWalk(idx) = SlotsDownFrom(idx, pools[idx].block_count - 1)
            /\ FreeListSet(idx) = PoolHeaders(idx)
            /\ Len(FreeListWalk(idx)) = pools[idx].block_count
            /\ pools[idx].allocated_blocks = 0
            /\ pools[idx].total_allocations = 0
            /\ pools[idx].total_deallocations = 0
            /\ pools[idx].allocation_failures = 0
            /\ pools[idx].peak_usage = 0)
  /\ [][\A t \in Tasks :
          (/\ op[t] = "pool_malloc"
           /\ pc[t] = "malloc_pop"
           /\ pc'[t] = "idle"
           /\ pools[i[t]].total_deallocations = 0)
            => \E idx \in PoolIdx, n \in -1..BlocksPerPool :
                 /\ idx = i[t]
                 /\ n = pools[idx].block_count - 1 - pools[idx].total_allocations
                 /\ n >= 0
                 /\ ret'[t] = PtrOf(BlockAddr(idx, n))
                 /\ FreeListWalk(idx)' = SlotsDownFrom(idx, n - 1)
                 /\ \A u \in Tasks \ {t} :
                      (op[u] = "pool_malloc" /\ pc[u] = "idle") => ret[u] # ret'[t]]_vars

\* The N-th allocation in a row has returned slot 0 of its pool.
C27_Witness ==
  \E t \in Tasks : \E idx \in DirectPools :
    /\ op[t] = "pool_malloc" /\ pc[t] = "idle"
    /\ ret[t] = PtrOf(BlockAddr(idx, 0))
    /\ pools[idx].total_allocations = pools[idx].block_count
    /\ pools[idx].total_deallocations = 0
    /\ pools[idx].free_list = NULL

\* C28: whatever the interleaving of the tasks' smart_pool_malloc calls and
\* the pool_malloc calls inside them, no address is kept by two tasks at
\* once: an allocation returns an address no task keeps, a block popped
\* from a pool was tagged FREE and leaves tagged ALLOCATED, and only the
\* push of a pool_free that passed the validation takes the ALLOCATED tag
\* away again.
C28_NoBlockHeldTwice ==
  /\ [](\A t \in Tasks, u \in Tasks : t # u => held[t] \cap held[u] = {})
  /\ [][\A t \in Tasks :
          (/\ op[t] = "smart_malloc"
           /\ pc[t] \in {"malloc_pop", "sm_heap"}
           /\ pc'[t] = "idle"
           /\ ret'[t] # NULL)
            => /\ \A u \in Tasks : ret'[t] \notin held[u]
               /\ ret'[t] \in held'[t]
               /\ pc[t] = "malloc_pop"
                    => /\ HeaderOf(ret'[t]) = block[t]
                       /\ blocks[block[t]].magic = POOL_MAGIC_FREE
                       /\ blocks'[block[t]].magic = POOL_MAGIC_ALLOC]_vars
  /\ [][\A b \in Headers :
          (blocks[b].magic = POOL_MAGIC_ALLOC /\ blocks'[b].magic # POOL_MAGIC_ALLOC)
            => \E t \in Tasks :
                 pc[t] = "free_push" /\ block[t] = b /\ pc'[t] # "free_push"]_vars

\* Two calls on the same pool overlap: one task is about to pop the head
\* of pool 0 while the other, which already keeps a block of that pool,
\* waits for the mutex.
C28_Witness ==
  \E t \in Tasks, u \in Tasks :
    /\ t # u
    /\ op[t] = "smart_malloc" /\ pc[t] = "malloc_pop" /\ i[t] = 0
    /\ op[u] = "smart_malloc" /\ pc[u] = "take" /\ i[u] = 0
    /\ \E p \in held[u] : HeaderOf(p) \in PoolHeaders(0)

\* Task t leaves the take of pools[i[t]].mutex without the mutex.
TakeTimesOut(t) ==
  /\ pc[t] = "take"
  /\ mutex[i[t]] # 0
  /\ mutex'[i[t]] = mutex[i[t]]
  /\ pc'[t] # "take" \/ i'[t] # i[t]

\* C29: a pool_malloc or pool_free whose take of the mutex times out leaves
\* the pools as they are: free_list, allocated_blocks, total_allocations,
\* total_deallocations and allocation_failures of every pool, every block
\* header and every mutex.
C29_TimeoutLeavesPoolsUnchanged ==
  [][\A t \in Tasks :
       TakeTimesOut(t) => (pools' = pools /\ blocks' = blocks /\ mutex' = mutex)]_vars

\* A pool_malloc has returned NULL from a pool that still has free blocks
\* and never counted a failure, while another task holds a pool's mutex.
C29_Witness ==
  \E t \in Tasks, u \in Tasks :
    /\ t # u
    /\ op[t] = "pool_malloc" /\ pc[t] = "idle" /\ ret[t] = NULL
    /\ \A idx \in PoolIdx :
         pools[idx].allocation_failures = 0 /\ pools[idx].free_list # NULL
    /\ \E idx \in DirectPools : mutex[idx] = u

\* C30: a tracked_malloc that holds the mutex with a pointer from the raw
\* allocator records the allocation whenever an entry is inactive, entries
\* released earlier included: the first inactive entry becomes active with
\* the pointer and the size of the call and the counters go up.  It leaves
\* the table alone only when every entry is active.
C30_InactiveSlotIsReused ==
  [][\A t \in Tasks :
       (/\ op[t] = "tracked_malloc"
        /\ pc[t] = "tm_record"
        /\ pc'[t] = "idle"
        /\ ptr[t] # NULL)
         => /\ ~TableFull =>
                 \E slot \in Slots :
                   /\ ~allocations[slot].is_active
                   /\ \A n \in Slots : n < slot => allocations[n].is_active
                   /\ allocations'[slot].is_active
                   /\ allocations'[slot].ptr = ptr[t]
                   /\ allocations'[slot].size = size[t]
                   /\ \A n \in Slots \ {slot} : allocations'[n] = allocations[n]
                   /\ stats'.total_allocations = stats.total_allocations + 1
                   /\ stats'.current_allocations = stats.current_allocations + 1
            /\ allocations' = allocations => TableFull]_vars

\* The entry of a released allocation holds a later one: two allocations
\* were recorded, one was released, and entry 1 was never used.
C30_Witness ==
  /\ stats.total_allocations = 2
  /\ stats.total_deallocations = 1
  /\ allocations[0].is_active
  /\ allocations[1].ptr = NULL
  /\ \A t \in Tasks : pc[t] = "idle"

(***************************************************************************)
(* Claims about both allocators.                                           *)
(***************************************************************************)
\* The positions between a successful take and the give.
PoolCritical == {"malloc_pop", "malloc_fail", "free_push", "free_err"}
TrackerCritical == {"tm_record", "tf_update"}
MonitorCritical == {"sum_hold", "scan_hold"}

\* C31: a mutex is held only by a task between the take and the give of
\* the function that took it: a pool mutex inside pool_malloc or pool_free
\* on that pool, the tracker mutex inside tracked_malloc, tracked_free, the
\* summary or the leak scan.  So with every task outside these functions
\* and the monitor in its delay, every pool mutex and memory_mutex is free.
C31_MutexGivenBeforeReturn ==
  /\ \A idx \in PoolIdx :
       mutex[idx] # 0 =>
         /\ mutex[idx] \in Tasks
         /\ pc[mutex[idx]] \in PoolCritical
         /\ i[mutex[idx]] = idx
  /\ memory_mutex \in Tasks => pc[memory_mutex] \in TrackerCritical
  /\ memory_mutex = MONITOR => mon_pc \in MonitorCritical
  /\ memory_mutex \in {0, MONITOR} \cup Tasks
  /\ ((\A t \in Tasks : pc[t] \in {"idle", "sm_heap", "sf_heap"}) /\ mon_pc = "delay")
       => ((\A idx \in PoolIdx : mutex[idx] = 0) /\ memory_mutex = 0)

\* Every task is back from its calls, one of which failed the validation
\* of pool_free and one of which went through the tracker.
C31_Witness ==
  /\ \A t \in Tasks : pc[t] = "idle"
  /\ mon_pc = "delay"
  /\ led.error
  /\ stats.total_allocations + stats.allocation_failures >= 1

\* The sum of the size fields of the entries in S.
RECURSIVE SumSizes(_)
SumSizes(S) ==
  IF S = {} THEN 0
  ELSE LET slot == CHOOSE n \in S : TRUE
       IN allocations[slot].size + SumSizes(S \ {slot})

\* C32: in every state total_bytes_allocated - total_bytes_deallocated is
\* the sum of the size fields of the active entries, and so is not
\* negative.
C32_BytesInUseIsSumOfActiveSizes ==
  /\ CurrentUsage = SumSizes(ActiveSlots)
  /\ CurrentUsage >= 0

\* 4096 bytes were released and the only active entry holds 64 bytes.
C32_Witness ==
  /\ stats.total_bytes_deallocated = 4096
  /\ Cardinality(ActiveSlots) = 1
  /\ \A slot \in ActiveSlots : allocations[slot].size = 64

\* C33: a tracked_malloc that holds the mutex with a NULL from the raw
\* allocator adds one to allocation_failures, changes no entry and no other
\* counter and returns NULL; no other step changes allocation_failures.
C33_FailuresCountNullResults ==
  /\ [][\A t \in Tasks :
          (/\ op[t] = "tracked_malloc"
           /\ pc[t] = "tm_record"
           /\ pc'[t] = "idle"
           /\ ptr[t] = NULL)
            => /\ stats' = [stats EXCEPT !.allocation_failures = @ + 1]
               /\ allocations' = allocations
               /\ ret'[t] = NULL]_vars
  /\ [][stats'.allocation_failures # stats.allocation_failures
          => \E t \in Tasks :
               /\ op[t] = "tracked_malloc"
               /\ pc[t] = "tm_record"
               /\ pc'[t] = "idle"
               /\ ptr[t] = NULL]_vars

\* A NULL result was counted while the table holds an active entry.
C33_Witness ==
  /\ stats.allocation_failures >= 1
  /\ ActiveSlots # {}
  /\ \E t \in Tasks : op[t] = "tracked_malloc" /\ pc[t] = "idle" /\ ret[t] = NULL

\* The pointers the tasks keep.
KeptPointers == UNION {tptrs[t] : t \in Tasks}

\* C34: with the tasks keeping at most 20, 50, 1 and 1 pointers and no
\* take of memory_mutex timing out, every active entry holds a pointer a
\* task keeps and no two hold the same one, so the active entries never
\* outnumber the pointers the tasks can keep (72 in the lab, under the 100
\* entries of the table); when the table has an entry for each of them, a
\* tracked_malloc that holds the mutex with a pointer finds an inactive
\* entry and the "slots full" branch is not taken.
C34_LabNeverFillsTable ==
  /\ [](/\ \A slot \in ActiveSlots : allocations[slot].ptr \in KeptPointers
        /\ \A m \in ActiveSlots, n \in ActiveSlots :
             allocations[m].ptr = allocations[n].ptr => m = n
        /\ \A t \in Tasks : Cardinality(tptrs[t]) <= MaxHold
        /\ Cardinality(ActiveSlots) <= NumTasks * MaxHold
        /\ LabPointers = 72
        /\ LabPointers <= LAB_MAX_ALLOCATIONS)
  /\ [][\A t \in Tasks :
          (/\ pc[t] = "tm_record"
           /\ ptr[t] # NULL
           /\ NumTasks * MaxHold <= MAX_ALLOCATIONS)
            => /\ ~TableFull
               /\ find_free_allocation_slot >= 0
               /\ pc'[t] = "idle" => (\E slot \in Slots :
                                        /\ allocations'[slot].is_active
                                        /\ allocations'[slot].ptr = ptr[t])]_vars

\* Every task keeps as many pointers as it may and each has its entry.
C34_Witness ==
  /\ \A t \in Tasks : Cardinality(tptrs[t]) = MaxHold /\ pc[t] = "idle"
  /\ Cardinality(ActiveSlots) = NumTasks * MaxHold
  /\ \A slot \in ActiveSlots : allocations[slot].ptr \in KeptPointers

(***************************************************************************)
(* Claims about the static buffer allocator.                               *)
(***************************************************************************)

AllBuffersUsed == \A k \in Buffers : static_buffer_used[k]

\* C35: no static buffer is held by two callers at once and every buffer
\* held has its flag set; an allocate_static_buffer() that finds every flag
\* set returns NULL and changes no flag, counter, LED or holder; a
\* free_static_buffer() of a pointer that is not a buffer's address changes
\* no flag.
C35_StaticBuffersExclusive ==
  /\ [](/\ \A t1, t2 \in Tasks : t1 # t2 => sb.held[t1] \cap sb.held[t2] = {}
        /\ \A t \in Tasks : \A k \in Buffers :
             BufferAddr(k) \in sb.held[t] => static_buffer_used[k])
  /\ [][\A t \in Tasks :
          /\ (sb.pc[t] = "alloc_mark" /\ sb'.pc[t] = "idle" /\ AllBuffersUsed)
               => /\ sb'.ret[t] = NULL
                  /\ UNCHANGED <<static_buffer_used, static_allocations,
                                 led_static, sb.held>>
          /\ (sb.pc[t] = "idle" /\ sb'.calls # sb.calls /\ sb'.arg[t] = NULL
                /\ sb'.pc[t] = "idle")
               => UNCHANGED static_buffer_used
          /\ (sb.pc[t] \in {"free_take", "free_clear"} /\ sb'.pc[t] # sb.pc[t]
                /\ sb.arg[t] \notin BufferAddrs)
               => UNCHANGED static_buffer_used]_vars

\* Each of two tasks holds a buffer and every flag is set; one of them has
\* put a pointer into the middle of a buffer through free_static_buffer(),
\* and the other, which never freed anything, has been through the loop of
\* allocate_static_buffer() without finding a clear flag and has NULL.
C35_Witness ==
  /\ AllBuffersUsed
  /\ static_allocations = STATIC_BUFFER_COUNT
  /\ \E t1, t2 \in Tasks :
       /\ t1 # t2 /\ sb.held[t1] # {} /\ sb.held[t2] # {}
       /\ sb.pc[t1] = "idle" /\ sb.arg[t1] \in ForeignPtrs
       /\ sb.pc[t2] = "idle" /\ sb.arg[t2] = NULL
       /\ sb.i[t2] = STATIC_BUFFER_COUNT /\ sb.ret[t2] = NULL

(***************************************************************************)
(* Claims about the counting-semaphore lab.                                *)
(***************************************************************************)

\* A task holds slot k from the return of acquire_resource() to its call of
\* release_resource().
HoldsResource(t, k) == cs.pc[t] = "using" /\ cs.res[t] = k

\* A task is inside acquire_resource() or release_resource().
InResourceCall(t) ==
  cs.pc[t] \in {"scan", "set", "inc_load", "inc_store", "dec_load", "dec_store"}

SlotsInUse == {k \in ResIdx : resources[k].in_use}

\* C36: no resource slot is held by two tasks at once; whenever no task is
\* inside acquire_resource() or release_resource(), stats.resources_in_use is
\* the number of slots with in_use set; and stats.resources_in_use never
\* exceeds MAX_RESOURCES.
C36_SlotsExclusiveAndCounted ==
  /\ \A t1, t2 \in SemTasks : \A k \in ResIdx :
       (HoldsResource(t1, k) /\ HoldsResource(t2, k)) => t1 = t2
  /\ (\A t \in SemTasks : ~InResourceCall(t))
       => sem_stats.resources_in_use = Cardinality(SlotsInUse)
  /\ sem_stats.resources_in_use <= MAX_RESOURCES

\* A task has the semaphore from a successful take to its give.
BetweenTakeAndGive(t) == cs.pc[t] \notin {"idle", "take"}

\* C37: the count of the semaphore plus the number of tasks between a
\* successful take and the give is MAX_RESOURCES, and acquire_resource() has
\* never returned -1 to a task that has the semaphore.
C37_CountBalancedAndSlotFound ==
  /\ xCountingSemaphore
       + Cardinality({t \in SemTasks : BetweenTakeAndGive(t)}) = MAX_RESOURCES
  /\ \A t \in SemTasks : cs.res[t] # -1

\* The count is used up and every slot is held by a task of its own: the
\* task that took the last count walked past the slots in use and found the
\* free one.
C37_Witness ==
  /\ xCountingSemaphore = 0
  /\ \A k \in ResIdx :
       /\ resources[k].in_use
       /\ \E t \in SemTasks : HoldsResource(t, k) /\ resources[k].current_user = t

(***************************************************************************)
(* Claim about the mutex lab.                                              *)
(***************************************************************************)

\* C38: stats.corruption_detected is 0 in every reachable state: no check
\* of the stored checksum against the recomputed one fails, neither a
\* worker's inside xMutex nor the monitor's outside it.
C38_NoCorruptionDetected == access_stats.corruption_detected = 0

====
